---------------------------- MODULE Spec2Model ----------------------------
(***************************************************************************)
(* Rule-based transaction classification of                               *)
(* clean_bank_statements/clean_bank_statements.py (normalize_text,         *)
(* apply_rules_vectorized, main), and the order of the download           *)
(* strategies of universal_video_downloader/Download_videos.py (worker,   *)
(* parse_and_download).                                                    *)
(*                                                                         *)
(* A text is a sequence of characters; a character is a one-character     *)
(* string ("U+0301" names the combining acute accent and "U+20DD" the      *)
(* combining enclosing circle, which have no ASCII spelling).  The         *)
(* patterns of raw_rules are kept as regular expressions and matched by a  *)
(* backtracking matcher with the priorities of Python's re module, so that *)
(* containment, capture groups, greedy and lazy repetition behave as they  *)
(* do in the program.                                                      *)
(***************************************************************************)
EXTENDS Integers, Sequences, FiniteSets, TLC

VARIABLES
    text,     \* df[text_col]: the description column, one text per record
    label,    \* df["label"]: None while unset
    norm,     \* df[text_col + "_norm"]
    raw,      \* df[text_col + "_raw"]
    method,   \* the rule that assigned each label (0: none), df['method']
    used,     \* per rule, the column its pass extracted from or searched
    pc,       \* position in apply_rules_vectorized
    rule,     \* the loop's position: an index of compiled_rules
    run,      \* number of the current call of apply_rules_vectorized
    prev,     \* the label column as the previous call returned it
    entry,    \* the function the user called: main or apply_rules_vectorized
    given,    \* the table as pd.read_csv returned it, or as the caller passed it
    columns,  \* df.columns
    other,    \* df["Monto"], a column the program does not name
    written,  \* the table handed to df.to_csv
    error,    \* the message of the ValueError main raised
    wpc,      \* position in worker and parse_and_download
    opts,     \* worker's opts: no_yt, use_selenium
    url,      \* worker's url
    media,    \* media_urls of parse_and_download
    mi,       \* position of parse_and_download's loops in media_urls
    caps,     \* cap_urls of worker's selenium fallback
    ci,       \* position of worker's loop in cap_urls
    ret,      \* the caller parse_and_download returns to
    pok,      \* the ok parse_and_download returns
    log,      \* the download helpers called so far, in order
    result,   \* what worker returned: ok and message
    dpc,         \* position in download_direct_file
    max_retries, \* its parameter max_retries
    attempt,     \* the loop variable of its for
    last_err,    \* last_err
    sent,        \* what each session.get so far came to, in order
    slept,       \* the seconds passed in time.sleep
    dret,        \* what download_direct_file returned
    mpc,      \* position in the downloader's main
    urls,     \* urls
    workers,  \* args.workers
    futures,  \* the futures of ex.submit, in the order submitted
    taken,    \* the futures as_completed has yielded, in order
    results,  \* results
    thread,   \* the thread that took the last step
    vpc,       \* position in procesar_carpeta
    ogg_files, \* ogg_files, sorted
    vi,        \* position of the for in ogg_files
    model,     \* whether cargar_modelo_vosk returned a model
    wavs,      \* the .wav files of the folder
    dur_ms,    \* len(audio_proc) of the file in hand
    out_f,     \* what was written to the output file, per .ogg file
    notas      \* notas

\* the classifier's variables
bank == <<text, label, norm, raw, method, used, pc, rule, run, prev,
          entry, given, columns, other, written, error>>

\* the downloader's variables
downloader == <<wpc, opts, url, media, mi, caps, ci, ret, pok, log, result>>

\* the variables of download_direct_file
direct == <<dpc, max_retries, attempt, last_err, sent, slept, dret>>

\* the variables of the thread pool of the downloader's main
pool == <<mpc, urls, workers, futures, taken, results, thread>>

\* the variables of procesar_carpeta
vosk == <<vpc, ogg_files, vi, model, wavs, dur_ms, out_f, notas>>

vars == <<bank, downloader, direct, pool, vosk>>

-----------------------------------------------------------------------------
(* Characters: str.lower, str.isspace / \s, \d, \w, unicodedata.           *)

\* None / NaN: a missing value, which is no text
None == <<"None">>

\* A value that is no text is the name of its type followed by the text
\* str() gives it.
TypeTags == {"int", "list"}

IsText(v) == v # None /\ (v = <<>> \/ v[1] \notin TypeTags)

\* str(v), v not None
Str(v) == IF IsText(v) THEN v ELSE Tail(v)

LowerCase ==
    [c \in {"A","B","C","D","E","F","G","H","I","J","K","L","M","N","O","P",
            "Q","R","S","T","U","V","W","X","Y","Z","Á","É","Í","Ó","Ú"} |->
        CASE c = "A" -> "a" [] c = "B" -> "b" [] c = "C" -> "c" [] c = "D" -> "d"
          [] c = "E" -> "e" [] c = "F" -> "f" [] c = "G" -> "g" [] c = "H" -> "h"
          [] c = "I" -> "i" [] c = "J" -> "j" [] c = "K" -> "k" [] c = "L" -> "l"
          [] c = "M" -> "m" [] c = "N" -> "n" [] c = "O" -> "o" [] c = "P" -> "p"
          [] c = "Q" -> "q" [] c = "R" -> "r" [] c = "S" -> "s" [] c = "T" -> "t"
          [] c = "U" -> "u" [] c = "V" -> "v" [] c = "W" -> "w" [] c = "X" -> "x"
          [] c = "Y" -> "y" [] c = "Z" -> "z" [] c = "Á" -> "á" [] c = "É" -> "é"
          [] c = "Í" -> "í" [] c = "Ó" -> "ó" [] c = "Ú" -> "ú"]

Lower(c) == IF c \in DOMAIN LowerCase THEN LowerCase[c] ELSE c

LowerLetters ==
    {"a","b","c","d","e","f","g","h","i","j","k","l","m","n","o","p","q","r",
     "s","t","u","v","w","x","y","z","á","é","í","ó","ú"}

Digits == {"0","1","2","3","4","5","6","7","8","9"}

Whitespace == {" ", "\t", "\n", "\r", "\f"}

IsSpace(c) == c \in Whitespace

IsDigit(c) == c \in Digits

\* \w under re.UNICODE: alphanumeric or underscore
IsWord(c) == Lower(c) \in LowerLetters \/ c \in Digits \/ c = "_"

\* unicodedata.normalize("NFKD", .) of one character
Decomposition ==
    [c \in {"á","é","í","ó","ú","Á","É","Í","Ó","Ú"} |->
        CASE c = "á" -> <<"a", "U+0301">> [] c = "é" -> <<"e", "U+0301">>
          [] c = "í" -> <<"i", "U+0301">> [] c = "ó" -> <<"o", "U+0301">>
          [] c = "ú" -> <<"u", "U+0301">> [] c = "Á" -> <<"A", "U+0301">>
          [] c = "É" -> <<"E", "U+0301">> [] c = "Í" -> <<"I", "U+0301">>
          [] c = "Ó" -> <<"O", "U+0301">> [] c = "Ú" -> <<"U", "U+0301">>]

\* a combining mark: unicodedata.category(c) is Mn, Mc or Me
IsMark(c) == c \in {"U+0301", "U+20DD"}

\* unicodedata.combining(c) != 0: the canonical combining class of the acute
\* accent is 230, that of the enclosing circle is 0
Combining(c) == c = "U+0301"

-----------------------------------------------------------------------------------------------------------------------------------------------------
(* Strings.                                                                *)

Least(S)    == CHOOSE n \in S : \A m \in S : n <= m
Greatest(S) == CHOOSE n \in S : \A m \in S : n >= m

\* str.strip()
Strip(s) ==
    LET inked == {i \in 1..Len(s) : ~IsSpace(s[i])} IN
    IF inked = {} THEN <<>> ELSE SubSeq(s, Least(inked), Greatest(inked))

\* str.lower()
LowerStr(s) == [i \in 1..Len(s) |-> Lower(s[i])]

\* s.startswith(p)
StartsWith(s, p) == Len(p) <= Len(s) /\ SubSeq(s, 1, Len(p)) = p

\* s.find(p) + 1: the first index at which p occurs in s, 0 when there is none
Find(s, p) ==
    LET at == {i \in 1..(Len(s) - Len(p) + 1) : SubSeq(s, i, i + Len(p) - 1) = p}
    IN  IF at = {} THEN 0 ELSE Least(at)

\* p in s
Contains(s, p) == Find(s, p) # 0

\* s.replace(p, r), p not empty
RECURSIVE Replace(_, _, _)
Replace(s, p, r) ==
    LET i == Find(s, p) IN
    IF i = 0 THEN s
    ELSE SubSeq(s, 1, i - 1) \o r \o Replace(SubSeq(s, i + Len(p), Len(s)), p, r)

-----------------------------------------------------------------------------
(* normalize_text.                                                         *)

\* unicodedata.normalize("NFKD", s): every character replaced by its
\* decomposition (the text is split in halves to keep the recursion flat)
RECURSIVE NFKD(_)
NFKD(s) ==
    IF s = <<>> THEN <<>>
    ELSE IF Len(s) = 1
         THEN (IF s[1] \in DOMAIN Decomposition THEN Decomposition[s[1]] ELSE s)
    ELSE LET half == Len(s) \div 2 IN
         NFKD(SubSeq(s, 1, half)) \o NFKD(SubSeq(s, half + 1, Len(s)))

\* "".join(ch for ch in s if not unicodedata.combining(ch))
DropCombining(s) == SelectSeq(s, LAMBDA ch : ~Combining(ch))

\* s.replace(":", " ")
ColonsToSpaces(s) == [i \in 1..Len(s) |-> IF s[i] = ":" THEN " " ELSE s[i]]

\* re.sub(r"\s+", " ", s): of every run of whitespace only the first
\* character is kept, as a space
CollapseSpaces(s) ==
    LET kept == SelectSeq([i \in 1..Len(s) |-> i],
                          LAMBDA i : ~IsSpace(s[i]) \/ i = 1 \/ ~IsSpace(s[i - 1]))
    IN  [j \in 1..Len(kept) |-> IF IsSpace(s[kept[j]]) THEN " " ELSE s[kept[j]]]

normalize_text(s) ==
    IF s = None THEN <<>>
    ELSE LowerStr(Strip(CollapseSpaces(ColonsToSpaces(DropCombining(NFKD(Str(s)))))))

-----------------------------------------------------------------------------
(* Regular expressions, as re.compile(pat, re.IGNORECASE | re.UNICODE)     *)
(* parses them: a pattern is a sequence of items.                          *)

Lit(s)   == <<[k |-> "lit", s |-> s]>>                   \* literal characters
In(set, cats) == <<[k |-> "in", set |-> set, cats |-> cats]>>   \* [...]
Space    == In({}, {"space"})                            \* \s
Digit    == In({}, {"digit"})                            \* \d
Dot      == <<[k |-> "any", dotall |-> FALSE]>>          \* .
DotS     == <<[k |-> "any", dotall |-> TRUE]>>           \* . under (?s)
Bol      == <<[k |-> "bol"]>>                            \* ^
Wb       == <<[k |-> "wb"]>>                             \* \b
Group(p) == <<[k |-> "open"]>> \o p \o <<[k |-> "close"]>>      \* (p), group 1
\* p{min,max}, max = -1 for no upper limit; greedy, or lazy (p{min,max}?)
Rep(min, max, p)     == <<[k |-> "rep", min |-> min, max |-> max, greedy |-> TRUE, body |-> p]>>
LazyRep(min, max, p) == <<[k |-> "rep", min |-> min, max |-> max, greedy |-> FALSE, body |-> p]>>
Star(p)     == Rep(0, -1, p)
Plus(p)     == Rep(1, -1, p)
Opt(p)      == Rep(0, 1, p)
LazyStar(p) == LazyRep(0, -1, p)
LazyPlus(p) == LazyRep(1, -1, p)

\* pattern.groups
Groups(p) == Cardinality({i \in 1..Len(p) : p[i].k = "open"})

\* one item of kind "in" or "any" against one character, ignoring case
CharMatches(it, c) ==
    IF it.k = "any" THEN it.dotall \/ c # "\n"
    ELSE \/ Lower(c) \in {Lower(x) : x \in it.set}
         \/ "space" \in it.cats /\ IsSpace(c)
         \/ "digit" \in it.cats /\ IsDigit(c)

\* the literal s at position pos of t, ignoring case
LitAt(s, t, pos) ==
    /\ pos + Len(s) - 1 <= Len(t)
    /\ \A i \in 1..Len(s) : Lower(t[pos + i - 1]) = Lower(s[i])

\* \b at position pos of t
AtBoundary(t, pos) ==
    LET before == pos > 1 /\ IsWord(t[pos - 1])
        after  == pos <= Len(t) /\ IsWord(t[pos])
    IN  before # after

NoMatch == [ok |-> FALSE, end |-> 0, gs |-> 0, ge |-> 0]

\* a repetition of one "in" or "any" item
OneChar(body) == Len(body) = 1 /\ body[1].k \in {"in", "any"}

\* how many characters from position pos on the item it matches in a row,
\* at most max of them (max = -1: no limit)
RunLength(it, t, pos, max) ==
    LET avail == Len(t) - pos + 1
        lim   == IF max >= 0 /\ max < avail THEN max ELSE avail
        stops == {n \in 0..(lim - 1) : ~CharMatches(it, t[pos + n])}
    IN  IF stops = {} THEN lim ELSE Least(stops)

\* the repetition h with one iteration made
Remaining(h) == [h EXCEPT !.min = IF @ > 0 THEN @ - 1 ELSE 0,
                      !.max = IF @ > 0 THEN @ - 1 ELSE @]

\* of two attempts, the first when it matches, else the second
Prefer(first, second) == IF first.ok THEN first ELSE second

\* of the attempts after[n] made after n iterations of a repetition, the one
\* a greedy (the most iterations) or a lazy (the fewest) repetition takes
Iterations(after, greedy) ==
    LET good == {n \in DOMAIN after : after[n].ok}
    IN  IF good = {} THEN NoMatch
        ELSE IF greedy THEN after[Greatest(good)]
        ELSE after[Least(good)]

(* The match of the items p at position pos of t that a backtracking       *)
(* matcher finds first: a greedy repetition tries one more iteration       *)
(* before it tries what follows, a lazy one the reverse.  For a repetition *)
(* of a single character item that is the largest (greedy) or the smallest *)
(* (lazy) number of iterations after which the rest matches.  gs, ge:      *)
(* where group 1 opened and closed (0: it did not).  MatchItem: the match  *)
(* of the item h followed by the items rest.                               *)
RECURSIVE MatchAt(_, _, _, _, _)
RECURSIVE MatchItem(_, _, _, _, _, _)
MatchItem(h, rest, t, pos, gs, ge) ==
    CASE h.k = "lit" ->
            IF LitAt(h.s, t, pos) THEN MatchAt(rest, t, pos + Len(h.s), gs, ge)
            ELSE NoMatch
      [] h.k \in {"in", "any"} ->
            IF pos <= Len(t) /\ CharMatches(h, t[pos])
            THEN MatchAt(rest, t, pos + 1, gs, ge)
            ELSE NoMatch
      [] h.k = "bol" -> IF pos = 1 THEN MatchAt(rest, t, pos, gs, ge) ELSE NoMatch
      [] h.k = "wb" ->
            IF AtBoundary(t, pos) THEN MatchAt(rest, t, pos, gs, ge) ELSE NoMatch
      [] h.k = "open" -> MatchAt(rest, t, pos, pos, ge)
      [] h.k = "close" -> MatchAt(rest, t, pos, gs, pos)
      [] h.k = "rep" /\ OneChar(h.body) ->
            Iterations([n \in h.min..RunLength(h.body[1], t, pos, h.max) |->
                            MatchAt(rest, t, pos + n, gs, ge)],
                       h.greedy)
      [] h.k = "rep" /\ ~OneChar(h.body) ->
            IF h.greedy
            THEN Prefer(IF h.max = 0 THEN NoMatch
                        ELSE MatchAt(h.body \o <<Remaining(h)>> \o rest, t, pos, gs, ge),
                        IF h.min > 0 THEN NoMatch
                        ELSE MatchAt(rest, t, pos, gs, ge))
            ELSE Prefer(IF h.min > 0 THEN NoMatch
                        ELSE MatchAt(rest, t, pos, gs, ge),
                        IF h.max = 0 THEN NoMatch
                        ELSE MatchAt(h.body \o <<Remaining(h)>> \o rest, t, pos, gs, ge))

MatchAt(p, t, pos, gs, ge) ==
    IF p = <<>> THEN [ok |-> TRUE, end |-> pos, gs |-> gs, ge |-> ge]
    ELSE MatchItem(Head(p), Tail(p), t, pos, gs, ge)

\* of the attempts at[pos] made at the positions of a text, the leftmost
\* that matches (0: none does)
Leftmost(at) ==
    LET found == {pos \in DOMAIN at : at[pos].ok}
    IN  IF found = {} THEN 0 ELSE Least(found)

\* the match object of the attempt at position pos
MatchObject(at, pos) ==
    IF pos = 0 THEN [ok |-> FALSE, start |-> 0, end |-> 0, gs |-> 0, ge |-> 0]
    ELSE [ok |-> TRUE, start |-> pos, end |-> at[pos].end,
          gs |-> at[pos].gs, ge |-> at[pos].ge]

FirstMatch(at) == MatchObject(at, Leftmost(at))

\* pattern.search(t): the leftmost match
Search(p, t) == FirstMatch([pos \in 1..(Len(t) + 1) |-> MatchAt(p, t, pos, 0, 0)])

\* re.sub(p, repl, t) for a pattern that matches no empty string; m is the
\* first match of p in t
RECURSIVE ReSub(_, _, _)
RECURSIVE ReSubFrom(_, _, _, _)
ReSubFrom(m, p, repl, t) ==
    IF ~m.ok THEN t
    ELSE SubSeq(t, 1, m.start - 1) \o repl
         \o ReSub(p, repl, SubSeq(t, m.end, Len(t)))

ReSub(p, repl, t) == ReSubFrom(Search(p, t), p, repl, t)

-----------------------------------------------------------------------------
(* raw_rules, each pattern as re.compile(pat, re.IGNORECASE | re.UNICODE)  *)
(* parses it, with its label and its debug tag.                            *)

\* rule 1 (lines 15-19): \(\d{1,3}(?:,\d{3})*\.\d{2}\)\s*mxn\s*Nro\.?\s*Ref/Docto\.?\s*#\s*\d{7}
Rule1 ==
    [pattern |-> Lit(<<"(">>) \o Rep(1, 3, Digit) \o Star(Lit(<<",">>) \o Rep(3, 3, Digit)) \o Lit(<<".">>) \o
        Rep(2, 2, Digit) \o Lit(<<")">>) \o Star(Space) \o Lit(<<"m", "x", "n">>) \o Star(Space) \o
        Lit(<<"N", "r", "o">>) \o Opt(Lit(<<".">>)) \o Star(Space) \o
        Lit(<<"R", "e", "f", "/", "D", "o", "c", "t", "o">>) \o Opt(Lit(<<".">>)) \o Star(Space) \o
        Lit(<<"#">>) \o Star(Space) \o Rep(7, 7, Digit),
     label |-> <<"R", "A", "W", "_", "M", "A", "T", "C", "H">>,
     debug |-> "RAW_PATTERN_AMOUNT_REF_7"]

\* rule 2 (lines 20-20): TRASPASO\s+DE\s+SALDOS\s
Rule2 ==
    [pattern |-> Lit(<<"T", "R", "A", "S", "P", "A", "S", "O">>) \o Plus(Space) \o Lit(<<"D", "E">>) \o
        Plus(Space) \o Lit(<<"S", "A", "L", "D", "O", "S">>) \o Space,
     label |-> <<"T", "R", "A", "S", "P", "A", "S", "O", " ", "D", "E", " ", "S", "A", "L", "D", "O", "S">>,
     debug |-> "TRASPASO DE SALDOS"]

\* rule 3 (lines 21-25): \scuota\s+obrero\s+patronal\s
Rule3 ==
    [pattern |-> Space \o Lit(<<"c", "u", "o", "t", "a">>) \o Plus(Space) \o
        Lit(<<"o", "b", "r", "e", "r", "o">>) \o Plus(Space) \o
        Lit(<<"p", "a", "t", "r", "o", "n", "a", "l">>) \o Space,
     label |-> <<"C", "U", "O", "T", "A", " ", "O", "B", "R", "E", "R", "O", " ", "P", "A", "T", "R", "O", "N", "A", "L">>,
     debug |-> "CUOTA OBRERO PATRONAL"]

\* rule 4 (lines 26-30): mxn\s+numero\s+de\s+cheque.*\|\s*(\d{4})\s*\|
Rule4 ==
    [pattern |-> Lit(<<"m", "x", "n">>) \o Plus(Space) \o Lit(<<"n", "u", "m", "e", "r", "o">>) \o Plus(Space) \o
        Lit(<<"d", "e">>) \o Plus(Space) \o Lit(<<"c", "h", "e", "q", "u", "e">>) \o Star(Dot) \o
        Lit(<<"|">>) \o Star(Space) \o Group(Rep(4, 4, Digit)) \o Star(Space) \o Lit(<<"|">>),
     label |-> <<"C", "H", "E", "Q", "U", "E", " ", "*", "*", "*", "*">>,
     debug |-> "mxn numero de cheque con dígitos"]

\* rule 5 (lines 31-35): (?s)spei\s+enviado[:\s]*\|.*?beneficiario:\s*(.*?)\s*\(dato\s+no\s+verificado
Rule5 ==
    [pattern |-> Lit(<<"s", "p", "e", "i">>) \o Plus(Space) \o Lit(<<"e", "n", "v", "i", "a", "d", "o">>) \o
        Star(In({":"}, {"space"})) \o Lit(<<"|">>) \o LazyStar(DotS) \o
        Lit(<<"b", "e", "n", "e", "f", "i", "c", "i", "a", "r", "i", "o", ":">>) \o Star(Space) \o
        Group(LazyStar(DotS)) \o Star(Space) \o Lit(<<"(", "d", "a", "t", "o">>) \o Plus(Space) \o
        Lit(<<"n", "o">>) \o Plus(Space) \o Lit(<<"v", "e", "r", "i", "f", "i", "c", "a", "d", "o">>),
     label |-> <<"S", "P", "E", "I", " ", "E", "n", "v", "i", "a", "d", "o">>,
     debug |-> "SPEI Enviado con Beneficiario"]

\* rule 6 (lines 36-40): (?s)spei\s+recibido[:\s]*\|.*?ordenante:\s*(.*?)\s*cuenta\s+ordenante
Rule6 ==
    [pattern |-> Lit(<<"s", "p", "e", "i">>) \o Plus(Space) \o Lit(<<"r", "e", "c", "i", "b", "i", "d", "o">>) \o
        Star(In({":"}, {"space"})) \o Lit(<<"|">>) \o LazyStar(DotS) \o
        Lit(<<"o", "r", "d", "e", "n", "a", "n", "t", "e", ":">>) \o Star(Space) \o
        Group(LazyStar(DotS)) \o Star(Space) \o Lit(<<"c", "u", "e", "n", "t", "a">>) \o Plus(Space) \o
        Lit(<<"o", "r", "d", "e", "n", "a", "n", "t", "e">>),
     label |-> <<"S", "P", "E", "I", " ", "R", "e", "c", "i", "b", "i", "d", "o">>,
     debug |-> "SPEI Recibido con Ordenante"]

\* rule 7 (lines 41-45): (?s)devoluci[oó]n\s+de\s+spei[:\s]*\|.*?ordenante:\s*(.+?)\s*cuenta\s+ordenante
Rule7 ==
    [pattern |-> Lit(<<"d", "e", "v", "o", "l", "u", "c", "i">>) \o In({"o", "ó"}, {}) \o Lit(<<"n">>) \o
        Plus(Space) \o Lit(<<"d", "e">>) \o Plus(Space) \o Lit(<<"s", "p", "e", "i">>) \o
        Star(In({":"}, {"space"})) \o Lit(<<"|">>) \o LazyStar(DotS) \o
        Lit(<<"o", "r", "d", "e", "n", "a", "n", "t", "e", ":">>) \o Star(Space) \o
        Group(LazyPlus(DotS)) \o Star(Space) \o Lit(<<"c", "u", "e", "n", "t", "a">>) \o Plus(Space) \o
        Lit(<<"o", "r", "d", "e", "n", "a", "n", "t", "e">>),
     label |-> <<"D", "e", "v", "o", "l", "u", "c", "i", "ó", "n", " ", "d", "e", " ", "S", "P", "E", "I">>,
     debug |-> "Devolución de SPEI con Ordenante"]

\* rule 8 (lines 46-50): (?s)retiro\s+de\s+recursos.*?beneficiario\s*(?:\|\s*)?(.*?)\s*\|\s*hora:
Rule8 ==
    [pattern |-> Lit(<<"r", "e", "t", "i", "r", "o">>) \o Plus(Space) \o Lit(<<"d", "e">>) \o Plus(Space) \o
        Lit(<<"r", "e", "c", "u", "r", "s", "o", "s">>) \o LazyStar(DotS) \o
        Lit(<<"b", "e", "n", "e", "f", "i", "c", "i", "a", "r", "i", "o">>) \o Star(Space) \o
        Opt(Lit(<<"|">>) \o Star(Space)) \o Group(LazyStar(DotS)) \o Star(Space) \o Lit(<<"|">>) \o
        Star(Space) \o Lit(<<"h", "o", "r", "a", ":">>),
     label |-> <<"R", "e", "t", "i", "r", "o", " ", "d", "e", " ", "R", "e", "c", "u", "r", "s", "o", "s">>,
     debug |-> "Retiro de Recursos con Beneficiario"]

\* rule 9 (lines 51-55): (?s)entrega\s+de\s+recursos\s+por.*?ordenante\s*\|?\s*(.+?)\s*\|\s*hora:
Rule9 ==
    [pattern |-> Lit(<<"e", "n", "t", "r", "e", "g", "a">>) \o Plus(Space) \o Lit(<<"d", "e">>) \o Plus(Space) \o
        Lit(<<"r", "e", "c", "u", "r", "s", "o", "s">>) \o Plus(Space) \o Lit(<<"p", "o", "r">>) \o
        LazyStar(DotS) \o Lit(<<"o", "r", "d", "e", "n", "a", "n", "t", "e">>) \o Star(Space) \o
        Opt(Lit(<<"|">>)) \o Star(Space) \o Group(LazyPlus(DotS)) \o Star(Space) \o Lit(<<"|">>) \o
        Star(Space) \o Lit(<<"h", "o", "r", "a", ":">>),
     label |-> <<"E", "n", "t", "r", "e", "g", "a", " ", "d", "e", " ", "R", "e", "c", "u", "r", "s", "o", "s">>,
     debug |-> "Entrega de Recursos con Ordenante"]

\* rule 10 (lines 56-60): ^\s*comision\s*\|\s*dispersion\s+grupo\b.*por\s*\(?[\d,]+\.\d{2}\)?\s*mxn.*recibo\s*#\s*\d+
Rule10 ==
    [pattern |-> Bol \o Star(Space) \o Lit(<<"c", "o", "m", "i", "s", "i", "o", "n">>) \o Star(Space) \o
        Lit(<<"|">>) \o Star(Space) \o Lit(<<"d", "i", "s", "p", "e", "r", "s", "i", "o", "n">>) \o
        Plus(Space) \o Lit(<<"g", "r", "u", "p", "o">>) \o Wb \o Star(Dot) \o Lit(<<"p", "o", "r">>) \o
        Star(Space) \o Opt(Lit(<<"(">>)) \o Plus(In({","}, {"digit"})) \o Lit(<<".">>) \o
        Rep(2, 2, Digit) \o Opt(Lit(<<")">>)) \o Star(Space) \o Lit(<<"m", "x", "n">>) \o Star(Dot) \o
        Lit(<<"r", "e", "c", "i", "b", "o">>) \o Star(Space) \o Lit(<<"#">>) \o Star(Space) \o Plus(Digit),
     label |-> <<"C", "o", "m", "i", "s", "i", "ó", "n">>,
     debug |-> "Comisión | Dispersion Grupo con monto y Recibo"]

\* rule 11 (lines 61-65): ^\s*comision\s*\|\s*numero\s+de\s+referencia\b.*
Rule11 ==
    [pattern |-> Bol \o Star(Space) \o Lit(<<"c", "o", "m", "i", "s", "i", "o", "n">>) \o Star(Space) \o
        Lit(<<"|">>) \o Star(Space) \o Lit(<<"n", "u", "m", "e", "r", "o">>) \o Plus(Space) \o
        Lit(<<"d", "e">>) \o Plus(Space) \o Lit(<<"r", "e", "f", "e", "r", "e", "n", "c", "i", "a">>) \o
        Wb \o Star(Dot),
     label |-> <<"C", "o", "m", "i", "s", "i", "ó", "n">>,
     debug |-> "Comisión | Número de Referencia (exacto)"]

\* rule 12 (lines 66-66): ^\s*comisi[oó]n\s+por\b
Rule12 ==
    [pattern |-> Bol \o Star(Space) \o Lit(<<"c", "o", "m", "i", "s", "i">>) \o In({"o", "ó"}, {}) \o
        Lit(<<"n">>) \o Plus(Space) \o Lit(<<"p", "o", "r">>) \o Wb,
     label |-> <<"C", "o", "m", "i", "s", "i", "ó", "n">>,
     debug |-> "^Comisión por"]

\* rule 13 (lines 67-67): dep[oó]sito\s+en\s+efectivo\b
Rule13 ==
    [pattern |-> Lit(<<"d", "e", "p">>) \o In({"o", "ó"}, {}) \o Lit(<<"s", "i", "t", "o">>) \o Plus(Space) \o
        Lit(<<"e", "n">>) \o Plus(Space) \o Lit(<<"e", "f", "e", "c", "t", "i", "v", "o">>) \o Wb,
     label |-> <<"D", "e", "p", "ó", "s", "i", "t", "o", " ", "e", "n", " ", "E", "f", "e", "c", "t", "i", "v", "o">>,
     debug |-> "Depósito en Efectivo"]

\* rule 14 (lines 68-72): dep[oó]sito\s+negocios\s+afiliados\b
Rule14 ==
    [pattern |-> Lit(<<"d", "e", "p">>) \o In({"o", "ó"}, {}) \o Lit(<<"s", "i", "t", "o">>) \o Plus(Space) \o
        Lit(<<"n", "e", "g", "o", "c", "i", "o", "s">>) \o Plus(Space) \o
        Lit(<<"a", "f", "i", "l", "i", "a", "d", "o", "s">>) \o Wb,
     label |-> <<"D", "e", "p", "ó", "s", "i", "t", "o", " ", "N", "e", "g", "o", "c", "i", "o", "s", " ", "A", "f", "i", "l", "i", "a", "d", "o", "s">>,
     debug |-> "Depósito Negocios Afiliados"]

\* rule 15 (lines 73-77): dep[oó]sito\s+sbc\s+de\s+cobro\s+inmediato\b
Rule15 ==
    [pattern |-> Lit(<<"d", "e", "p">>) \o In({"o", "ó"}, {}) \o Lit(<<"s", "i", "t", "o">>) \o Plus(Space) \o
        Lit(<<"s", "b", "c">>) \o Plus(Space) \o Lit(<<"d", "e">>) \o Plus(Space) \o
        Lit(<<"c", "o", "b", "r", "o">>) \o Plus(Space) \o
        Lit(<<"i", "n", "m", "e", "d", "i", "a", "t", "o">>) \o Wb,
     label |-> <<"D", "e", "p", "ó", "s", "i", "t", "o", " ", "S", "B", "C", " ", "d", "e", " ", "C", "o", "b", "r", "o", " ", "I", "n", "m", "e", "d", "i", "a", "t", "o">>,
     debug |-> "Depósito SBC de Cobro Inmediato"]

\* rule 16 (lines 78-82): ^\s*deposito\s+para\s+eliminacion\s+de\s+sobregiro\s+por\s*\(?[\d,]+\.\d{2}\)?\s*mxn\b.*
Rule16 ==
    [pattern |-> Bol \o Star(Space) \o Lit(<<"d", "e", "p", "o", "s", "i", "t", "o">>) \o Plus(Space) \o
        Lit(<<"p", "a", "r", "a">>) \o Plus(Space) \o
        Lit(<<"e", "l", "i", "m", "i", "n", "a", "c", "i", "o", "n">>) \o Plus(Space) \o
        Lit(<<"d", "e">>) \o Plus(Space) \o Lit(<<"s", "o", "b", "r", "e", "g", "i", "r", "o">>) \o
        Plus(Space) \o Lit(<<"p", "o", "r">>) \o Star(Space) \o Opt(Lit(<<"(">>)) \o
        Plus(In({","}, {"digit"})) \o Lit(<<".">>) \o Rep(2, 2, Digit) \o Opt(Lit(<<")">>)) \o
        Star(Space) \o Lit(<<"m", "x", "n">>) \o Wb \o Star(Dot),
     label |-> <<"D", "e", "p", "ó", "s", "i", "t", "o", " ", "p", "a", "r", "a", " ", "E", "l", "i", "m", "i", "n", "a", "c", "i", "ó", "n", " ", "d", "e", " ", "S", "o", "b", "r", "e", "g", "i", "r", "o">>,
     debug |-> "Depósito para Eliminación de Sobregiro con monto"]

\* rule 17 (lines 83-83): ^\s*(spei enviado)[:\s]?.*
Rule17 ==
    [pattern |-> Bol \o Star(Space) \o Group(Lit(<<"s", "p", "e", "i", " ", "e", "n", "v", "i", "a", "d", "o">>)) \o
        Opt(In({":"}, {"space"})) \o Star(Dot),
     label |-> <<"S", "P", "E", "I", " ", "E", "n", "v", "i", "a", "d", "o">>,
     debug |-> "SPEI Enviado"]

\* rule 18 (lines 84-84): ^\s*(spei recibido)[:\s]?.*
Rule18 ==
    [pattern |-> Bol \o Star(Space) \o
        Group(Lit(<<"s", "p", "e", "i", " ", "r", "e", "c", "i", "b", "i", "d", "o">>)) \o
        Opt(In({":"}, {"space"})) \o Star(Dot),
     label |-> <<"S", "P", "E", "I", " ", "R", "e", "c", "i", "b", "i", "d", "o">>,
     debug |-> "SPEI Recibido"]

\* rule 19 (lines 85-89): ^\s*devoluci[oó]n\s+de\s+spei[:\s]?.*
Rule19 ==
    [pattern |-> Bol \o Star(Space) \o Lit(<<"d", "e", "v", "o", "l", "u", "c", "i">>) \o In({"o", "ó"}, {}) \o
        Lit(<<"n">>) \o Plus(Space) \o Lit(<<"d", "e">>) \o Plus(Space) \o Lit(<<"s", "p", "e", "i">>) \o
        Opt(In({":"}, {"space"})) \o Star(Dot),
     label |-> <<"D", "e", "v", "o", "l", "u", "c", "i", "ó", "n", " ", "d", "e", " ", "S", "P", "E", "I">>,
     debug |-> "Devolución de SPEI"]

\* rule 20 (lines 90-94): ^\s*entrega\s+de\s+recursos\s+por
Rule20 ==
    [pattern |-> Bol \o Star(Space) \o Lit(<<"e", "n", "t", "r", "e", "g", "a">>) \o Plus(Space) \o
        Lit(<<"d", "e">>) \o Plus(Space) \o Lit(<<"r", "e", "c", "u", "r", "s", "o", "s">>) \o
        Plus(Space) \o Lit(<<"p", "o", "r">>),
     label |-> <<"E", "n", "t", "r", "e", "g", "a", " ", "d", "e", " ", "R", "e", "c", "u", "r", "s", "o", "s">>,
     debug |-> "Entrega de Recursos"]

\* rule 21 (lines 95-95): ^\s*retiro\s+de\s+recursos\s+por
Rule21 ==
    [pattern |-> Bol \o Star(Space) \o Lit(<<"r", "e", "t", "i", "r", "o">>) \o Plus(Space) \o Lit(<<"d", "e">>) \o
        Plus(Space) \o Lit(<<"r", "e", "c", "u", "r", "s", "o", "s">>) \o Plus(Space) \o
        Lit(<<"p", "o", "r">>),
     label |-> <<"R", "e", "t", "i", "r", "o", " ", "d", "e", " ", "R", "e", "c", "u", "r", "s", "o", "s">>,
     debug |-> "Retiro de Recursos"]

\* rule 22 (lines 96-96): ^\s*iva\s+comision\s+por\s+administracion\s*.*
Rule22 ==
    [pattern |-> Bol \o Star(Space) \o Lit(<<"i", "v", "a">>) \o Plus(Space) \o
        Lit(<<"c", "o", "m", "i", "s", "i", "o", "n">>) \o Plus(Space) \o Lit(<<"p", "o", "r">>) \o
        Plus(Space) \o Lit(<<"a", "d", "m", "i", "n", "i", "s", "t", "r", "a", "c", "i", "o", "n">>) \o
        Star(Space) \o Star(Dot),
     label |-> <<"I", "V", "A">>,
     debug |-> "IVA"]

\* rule 23 (lines 97-97): ^\s*iva\s+comision\s+por\s+penalizacion\s*.*
Rule23 ==
    [pattern |-> Bol \o Star(Space) \o Lit(<<"i", "v", "a">>) \o Plus(Space) \o
        Lit(<<"c", "o", "m", "i", "s", "i", "o", "n">>) \o Plus(Space) \o Lit(<<"p", "o", "r">>) \o
        Plus(Space) \o Lit(<<"p", "e", "n", "a", "l", "i", "z", "a", "c", "i", "o", "n">>) \o
        Star(Space) \o Star(Dot),
     label |-> <<"I", "V", "A">>,
     debug |-> "IVA"]

\* rule 24 (lines 98-98): ^\s*iva\s+comision\s+por\s+transferencia\s*.*
Rule24 ==
    [pattern |-> Bol \o Star(Space) \o Lit(<<"i", "v", "a">>) \o Plus(Space) \o
        Lit(<<"c", "o", "m", "i", "s", "i", "o", "n">>) \o Plus(Space) \o Lit(<<"p", "o", "r">>) \o
        Plus(Space) \o Lit(<<"t", "r", "a", "n", "s", "f", "e", "r", "e", "n", "c", "i", "a">>) \o
        Star(Space) \o Star(Dot),
     label |-> <<"I", "V", "A">>,
     debug |-> "IVA"]

\* rule 25 (lines 99-99): ^\s*iva\s+comision\b.*numero\s+de\s+autorizacion\b.*
Rule25 ==
    [pattern |-> Bol \o Star(Space) \o Lit(<<"i", "v", "a">>) \o Plus(Space) \o
        Lit(<<"c", "o", "m", "i", "s", "i", "o", "n">>) \o Wb \o Star(Dot) \o
        Lit(<<"n", "u", "m", "e", "r", "o">>) \o Plus(Space) \o Lit(<<"d", "e">>) \o Plus(Space) \o
        Lit(<<"a", "u", "t", "o", "r", "i", "z", "a", "c", "i", "o", "n">>) \o Wb \o Star(Dot),
     label |-> <<"I", "V", "A">>,
     debug |-> "IVA"]

\* rule 26 (lines 100-104): telefono-?telmex
Rule26 ==
    [pattern |-> Lit(<<"t", "e", "l", "e", "f", "o", "n", "o">>) \o Opt(Lit(<<"-">>)) \o
        Lit(<<"t", "e", "l", "m", "e", "x">>),
     label |-> <<"P", "a", "g", "o", " ", "d", "e", " ", "S", "e", "r", "v", "i", "c", "i", "o", "s", " ", "T", "E", "L", "M", "E", "X", " ", "E", "N", " ", "L", "I", "N", "E", "A">>,
     debug |-> "Pago de Servicios TELMEX EN LINEA"]

\* rule 27 (lines 105-105): n[oó]mina\b
Rule27 ==
    [pattern |-> Lit(<<"n">>) \o In({"o", "ó"}, {}) \o Lit(<<"m", "i", "n", "a">>) \o Wb,
     label |-> <<"N", "ó", "m", "i", "n", "a">>,
     debug |-> "Nómina"]

\* rule 28 (lines 106-110): por\s*\(?[\d,]+\.\d{2}\)?\s*mxn\s*\|\s*recibo\s*#\s*\d+\b
Rule28 ==
    [pattern |-> Lit(<<"p", "o", "r">>) \o Star(Space) \o Opt(Lit(<<"(">>)) \o Plus(In({","}, {"digit"})) \o
        Lit(<<".">>) \o Rep(2, 2, Digit) \o Opt(Lit(<<")">>)) \o Star(Space) \o Lit(<<"m", "x", "n">>) \o
        Star(Space) \o Lit(<<"|">>) \o Star(Space) \o Lit(<<"r", "e", "c", "i", "b", "o">>) \o
        Star(Space) \o Lit(<<"#">>) \o Star(Space) \o Plus(Digit) \o Wb,
     label |-> <<"p", "o", "r", " ", "*">>,
     debug |-> "por (monto) mxn | Recibo # (caso general estricto)"]

\* rule 29 (lines 112-116): por\s*\(?[\d,]+\.\d{2}\)?\s*mxn\s*cargo
Rule29 ==
    [pattern |-> Lit(<<"p", "o", "r">>) \o Star(Space) \o Opt(Lit(<<"(">>)) \o Plus(In({","}, {"digit"})) \o
        Lit(<<".">>) \o Rep(2, 2, Digit) \o Opt(Lit(<<")">>)) \o Star(Space) \o Lit(<<"m", "x", "n">>) \o
        Star(Space) \o Lit(<<"c", "a", "r", "g", "o">>),
     label |-> <<"_", "_", "R", "A", "W", "_", "_", "p", "o", "r", "_", "m", "x", "n", "_", "c", "a", "r", "g", "o">>,
     debug |-> "por (xx) mxn Cargo"]

\* (faulty variant) the generic rules 17-21 listed before the context-rich rules 5-9
raw_rules_generic_first ==
    <<Rule1, Rule2, Rule3, Rule4, Rule17, Rule18, Rule19, Rule20,
      Rule21, Rule5, Rule6, Rule7, Rule8, Rule9, Rule10, Rule11,
      Rule12, Rule13, Rule14, Rule15, Rule16, Rule22, Rule23, Rule24,
      Rule25, Rule26, Rule27, Rule28, Rule29>>

raw_rules ==
    <<Rule1, Rule2, Rule3, Rule4, Rule5, Rule6, Rule7, Rule8,
      Rule9, Rule10, Rule11, Rule12, Rule13, Rule14, Rule15, Rule16,
      Rule17, Rule18, Rule19, Rule20, Rule21, Rule22, Rule23, Rule24,
      Rule25, Rule26, Rule27, Rule28, Rule29>>

-----------------------------------------------------------------------------
(* The batches classified.                                                  *)

MaxBatch == 2    \* records in a batch
MaxRuns  == 2    \* calls of apply_rules_vectorized on the same table

\* "SPEI Enviado: | Beneficiario: Juan Perez (dato no verificado)"
ScenarioA ==
    <<"S", "P", "E", "I", " ", "E", "n", "v", "i", "a", "d", "o", ":", " ",
      "|", " ", "B", "e", "n", "e", "f", "i", "c", "i", "a", "r", "i", "o",
      ":", " ", "J", "u", "a", "n", " ", "P", "e", "r", "e", "z", " ", "(",
      "d", "a", "t", "o", " ", "n", "o", " ", "v", "e", "r", "i", "f", "i",
      "c", "a", "d", "o", ")">>

\* "Comision por administracion"
ScenarioB ==
    <<"C", "o", "m", "i", "s", "i", "o", "n", " ", "p", "o", "r", " ", "a",
      "d", "m", "i", "n", "i", "s", "t", "r", "a", "c", "i", "o", "n">>

\* "algo sin ningun patron reconocible"
ScenarioC ==
    <<"a", "l", "g", "o", " ", "s", "i", "n", " ", "n", "i", "n", "g", "u",
      "n", " ", "p", "a", "t", "r", "o", "n", " ", "r", "e", "c", "o", "n",
      "o", "c", "i", "b", "l", "e">>

\* "Por (1,200.00) mxn Cargo a cuenta por deposito con cheque 123 | resto del texto"
ScenarioD ==
    <<"P", "o", "r", " ", "(", "1", ",", "2", "0", "0", ".", "0", "0", ")",
      " ", "m", "x", "n", " ", "C", "a", "r", "g", "o", " ", "a", " ", "c",
      "u", "e", "n", "t", "a", " ", "p", "o", "r", " ", "d", "e", "p", "o",
      "s", "i", "t", "o", " ", "c", "o", "n", " ", "c", "h", "e", "q", "u",
      "e", " ", "1", "2", "3", " ", "|", " ", "r", "e", "s", "t", "o", " ",
      "d", "e", "l", " ", "t", "e", "x", "t", "o">>

\* "DEPÓSITO EN EFECTIVO"
ScenarioE ==
    <<"D", "E", "P", "Ó", "S", "I", "T", "O", " ", "E", "N", " ", "E", "F",
      "E", "C", "T", "I", "V", "O">>

\* "deposito en efectivo"
ScenarioELower ==
    <<"d", "e", "p", "o", "s", "i", "t", "o", " ", "e", "n", " ", "e", "f",
      "e", "c", "t", "i", "v", "o">>

\* "Cargo a cuenta por deposito con cheque por 1.00 mxn cargo |"
CargoOnly ==
    <<"C", "a", "r", "g", "o", " ", "a", " ", "c", "u", "e", "n", "t", "a",
      " ", "p", "o", "r", " ", "d", "e", "p", "o", "s", "i", "t", "o", " ",
      "c", "o", "n", " ", "c", "h", "e", "q", "u", "e", " ", "p", "o", "r",
      " ", "1", ".", "0", "0", " ", "m", "x", "n", " ", "c", "a", "r", "g",
      "o", " ", "|">>

\* "UNKNOWN Cargo a cuenta por deposito con cheque por 1.00 mxn cargo |"
CargoUnknown ==
    <<"U", "N", "K", "N", "O", "W", "N", " ", "C", "a", "r", "g", "o", " ",
      "a", " ", "c", "u", "e", "n", "t", "a", " ", "p", "o", "r", " ", "d",
      "e", "p", "o", "s", "i", "t", "o", " ", "c", "o", "n", " ", "c", "h",
      "e", "q", "u", "e", " ", "p", "o", "r", " ", "1", ".", "0", "0", " ",
      "m", "x", "n", " ", "c", "a", "r", "g", "o", " ", "|">>

\* "mxn número de cheque | 1234 | nomina"
ChequeAccent ==
    <<"m", "x", "n", " ", "n", "ú", "m", "e", "r", "o", " ", "d", "e", " ",
      "c", "h", "e", "q", "u", "e", " ", "|", " ", "1", "2", "3", "4", " ",
      "|", " ", "n", "o", "m", "i", "n", "a">>

\* "mxn numero de cheque | 5678 |"
ChequePlain ==
    <<"m", "x", "n", " ", "n", "u", "m", "e", "r", "o", " ", "d", "e", " ",
      "c", "h", "e", "q", "u", "e", " ", "|", " ", "5", "6", "7", "8", " ",
      "|">>

\* "SPEI  ENVIADO: pago"
SpeiSpaced ==
    <<"S", "P", "E", "I", " ", " ", "E", "N", "V", "I", "A", "D", "O", ":",
      " ", "p", "a", "g", "o">>

\* "Spei Enviado pago"
SpeiPlain ==
    <<"S", "p", "e", "i", " ", "E", "n", "v", "i", "a", "d", "o", " ", "p",
      "a", "g", "o">>

\* "Nómina deposito en efectivo"
NominaDeposito ==
    <<"N", "ó", "m", "i", "n", "a", " ", "d", "e", "p", "o", "s", "i", "t",
      "o", " ", "e", "n", " ", "e", "f", "e", "c", "t", "i", "v", "o">>

\* "IVA Comisión por administración"
IvaAccent ==
    <<"I", "V", "A", " ", "C", "o", "m", "i", "s", "i", "ó", "n", " ", "p",
      "o", "r", " ", "a", "d", "m", "i", "n", "i", "s", "t", "r", "a", "c",
      "i", "ó", "n">>

\* "Pago por 5.00 mxn | Recibo # 12"
PorRecibo ==
    <<"P", "a", "g", "o", " ", "p", "o", "r", " ", "5", ".", "0", "0", " ",
      "m", "x", "n", " ", "|", " ", "R", "e", "c", "i", "b", "o", " ", "#",
      " ", "1", "2">>

\* "por 3.50 mxn CARGO A CUENTA POR DEPOSITO CON CHEQUE 77 | a | b "
CargoUpper ==
    <<"p", "o", "r", " ", "3", ".", "5", "0", " ", "m", "x", "n", " ", "C",
      "A", "R", "G", "O", " ", "A", " ", "C", "U", "E", "N", "T", "A", " ",
      "P", "O", "R", " ", "D", "E", "P", "O", "S", "I", "T", "O", " ", "C",
      "O", "N", " ", "C", "H", "E", "Q", "U", "E", " ", "7", "7", " ", "|",
      " ", "a", " ", "|", " ", "b", " ">>

\* "por 3.50 mxn cargo a cuenta por deposito con cheque 9"
CargoNoPipe ==
    <<"p", "o", "r", " ", "3", ".", "5", "0", " ", "m", "x", "n", " ", "c",
      "a", "r", "g", "o", " ", "a", " ", "c", "u", "e", "n", "t", "a", " ",
      "p", "o", "r", " ", "d", "e", "p", "o", "s", "i", "t", "o", " ", "c",
      "o", "n", " ", "c", "h", "e", "q", "u", "e", " ", "9">>

\* "SPEI Enviado: | Beneficiario: (dato no verificado)"
EmptyCapture ==
    <<"S", "P", "E", "I", " ", "E", "n", "v", "i", "a", "d", "o", ":", " ",
      "|", " ", "B", "e", "n", "e", "f", "i", "c", "i", "a", "r", "i", "o",
      ":", " ", "(", "d", "a", "t", "o", " ", "n", "o", " ", "v", "e", "r",
      "i", "f", "i", "c", "a", "d", "o", ")">>

\* "SPEI Recibido | Ordenante: ACME  SA | x Cuenta Ordenante 1"
Recibido ==
    <<"S", "P", "E", "I", " ", "R", "e", "c", "i", "b", "i", "d", "o", " ",
      "|", " ", "O", "r", "d", "e", "n", "a", "n", "t", "e", ":", " ", "A",
      "C", "M", "E", " ", " ", "S", "A", " ", "|", " ", "x", " ", "C", "u",
      "e", "n", "t", "a", " ", "O", "r", "d", "e", "n", "a", "n", "t", "e",
      " ", "1">>

\* "Devolución de SPEI | Ordenante: Ana Cuenta Ordenante 2"
Devolucion ==
    <<"D", "e", "v", "o", "l", "u", "c", "i", "ó", "n", " ", "d", "e", " ",
      "S", "P", "E", "I", " ", "|", " ", "O", "r", "d", "e", "n", "a", "n",
      "t", "e", ":", " ", "A", "n", "a", " ", "C", "u", "e", "n", "t", "a",
      " ", "O", "r", "d", "e", "n", "a", "n", "t", "e", " ", "2">>

\* "Retiro de recursos por 1 Beneficiario | Luis | Hora: 10"
Retiro ==
    <<"R", "e", "t", "i", "r", "o", " ", "d", "e", " ", "r", "e", "c", "u",
      "r", "s", "o", "s", " ", "p", "o", "r", " ", "1", " ", "B", "e", "n",
      "e", "f", "i", "c", "i", "a", "r", "i", "o", " ", "|", " ", "L", "u",
      "i", "s", " ", "|", " ", "H", "o", "r", "a", ":", " ", "1", "0">>

\* "Entrega de recursos por 1 Ordenante | Eva | Hora: 11"
Entrega ==
    <<"E", "n", "t", "r", "e", "g", "a", " ", "d", "e", " ", "r", "e", "c",
      "u", "r", "s", "o", "s", " ", "p", "o", "r", " ", "1", " ", "O", "r",
      "d", "e", "n", "a", "n", "t", "e", " ", "|", " ", "E", "v", "a", " ",
      "|", " ", "H", "o", "r", "a", ":", " ", "1", "1">>

\* "  Nómina:	pago  "
Padded ==
    <<" ", " ", "N", "ó", "m", "i", "n", "a", ":", "\t", "p", "a", "g", "o",
      " ", " ">>

\* "pago a⃝"
Enclosed ==
    <<"p", "a", "g", "o", " ", "a", "U+20DD">>

\* "Pago (1,200.00) MXN Nro.: Ref/Docto. # 1234567"
RefDocto ==
    <<"P", "a", "g", "o", " ", "(", "1", ",", "2", "0", "0", ".", "0", "0",
      ")", " ", "M", "X", "N", " ", "N", "r", "o", ".", ":", " ", "R", "e",
      "f", "/", "D", "o", "c", "t", "o", ".", " ", "#", " ", "1", "2", "3",
      "4", "5", "6", "7">>

\* "por 5.00 mxn |: Recibo # 12"
PorColon ==
    <<"p", "o", "r", " ", "5", ".", "0", "0", " ", "m", "x", "n", " ", "|",
      ":", " ", "R", "e", "c", "i", "b", "o", " ", "#", " ", "1", "2">>

\* "  Pago:  POR (5.00) MXN | Recibo # 12 DEPÓSITO  "
PorVerbatim ==
    <<" ", " ", "P", "a", "g", "o", ":", " ", " ", "P", "O", "R", " ", "(",
      "5", ".", "0", "0", ")", " ", "M", "X", "N", " ", "|", " ", "R", "e",
      "c", "i", "b", "o", " ", "#", " ", "1", "2", " ", "D", "E", "P", "Ó",
      "S", "I", "T", "O", " ", " ">>

\* "SPEI Recibido pago"
RecibidoPlain ==
    <<"S", "P", "E", "I", " ", "R", "e", "c", "i", "b", "i", "d", "o", " ",
      "p", "a", "g", "o">>

\* "Devolución de SPEI pago"
DevolucionPlain ==
    <<"D", "e", "v", "o", "l", "u", "c", "i", "ó", "n", " ", "d", "e", " ",
      "S", "P", "E", "I", " ", "p", "a", "g", "o">>

\* "Entrega de recursos por 5"
EntregaPlain ==
    <<"E", "n", "t", "r", "e", "g", "a", " ", "d", "e", " ", "r", "e", "c",
      "u", "r", "s", "o", "s", " ", "p", "o", "r", " ", "5">>

\* "Retiro de recursos por 5"
RetiroPlain ==
    <<"R", "e", "t", "i", "r", "o", " ", "d", "e", " ", "r", "e", "c", "u",
      "r", "s", "o", "s", " ", "p", "o", "r", " ", "5">>

\* ""
Empty ==
    <<>>

\* the int value 1200, with the text str() gives it
Number1200 ==
    <<"int">> \o <<"1", "2", "0", "0">>

\* the list value ['nomina'], with the text str() gives it
ListNomina ==
    <<"list">> \o <<"[", "'", "n", "o", "m", "i", "n", "a", "'", "]">>

\* the descriptions a record may hold; None is an absent value (NaN)
Descriptions ==
    {ScenarioA, ScenarioB, ScenarioC, ScenarioD, ScenarioE,
     ScenarioELower, CargoOnly, CargoUnknown, ChequeAccent, ChequePlain,
     SpeiSpaced, SpeiPlain, NominaDeposito, IvaAccent, PorRecibo,
     CargoUpper, CargoNoPipe, EmptyCapture, Recibido, Devolucion,
     Retiro, Entrega, Padded, Enclosed, RefDocto,
     PorColon, PorVerbatim, RecibidoPlain, DevolucionPlain, EntregaPlain,
     RetiroPlain, Empty, Number1200, ListNomina, None}

Batches == UNION {[1..n -> Descriptions] : n \in 0..MaxBatch}

\* the texts of the working columns of these batches
ColumnTexts(ds) ==
    {IF d = None THEN <<>> ELSE Str(d) : d \in ds} \cup {normalize_text(d) : d \in ds}

KnownTexts == ColumnTexts(Descriptions)

NumRules == Len(raw_rules)

\* compiled_rules[k]: the pattern, the label, whether pattern.groups > 0
Pattern(k)   == raw_rules[k].pattern
Label(k)     == raw_rules[k].label

\* (faulty variant) no pattern is taken to have a capture group
has_group_never(k) == FALSE

has_group(k) == Groups(Pattern(k)) > 0

\* compiled_rules[k].search(t).  A search depends on the rule and the text
\* alone: the searches of the texts of the batches are made once.
SearchAll(rules, t) == [r \in DOMAIN rules |-> Search(rules[r].pattern, t)]

SearchTable == [t \in KnownTexts |-> SearchAll(raw_rules, t)]

Searched(table, r, t) ==
    IF t \in DOMAIN table THEN table[t][r] ELSE Search(Pattern(r), t)

RuleSearch(r, t) == Searched(SearchTable, r, t)

\* group 1 of the match m in the text t, None (NaN) when there is none
Group1(m, t) ==
    IF m.ok /\ m.gs > 0 /\ m.ge > 0 THEN SubSeq(t, m.gs, m.ge - 1) ELSE None

\* Series.str.extract(pattern, expand=True)[0] for one text: group 1 of the
\* first match, None (NaN) when the pattern is not found; a group that
\* matched the empty string gives the empty text, not None
StrExtract(r, t) == Group1(RuleSearch(r, t), t)

\* Series.str.contains(pattern, na=False) for one text
StrContains(r, t) == RuleSearch(r, t).ok

\* (faulty variant) no template is a raw sentinel
RAW_LABEL_NONE == {}

RAW_LABEL_SET ==
    {<<"p", "o", "r", " ", "*">>,
     <<"_", "_", "R", "A", "W", "_", "_", "p", "o", "r", "_", "m", "x", "n", "_", "c", "a", "r", "g", "o">>}

UNKNOWN == <<"U", "N", "K", "N", "O", "W", "N">>

-----------------------------------------------------------------------------
(* build_label, for the label of the rule and the captured group g.        *)

\* \s*\|\s*
PipePattern == Star(Space) \o Lit(<<"|">>) \o Star(Space)

\* (faulty variant) the fragment is only trimmed
CleanFragmentTrim(g) == Strip(g)

\* gstr: the captured fragment, cleaned
CleanFragment(g) == Strip(CollapseSpaces(ReSub(PipePattern, <<" ">>, Strip(g))))

Placeholder == <<"*", "*", "*", "*">>

\* the label built from the template lbl and the cleaned fragment gstr
Template(lbl, low, gstr) ==
    IF Contains(lbl, Placeholder) THEN Replace(lbl, Placeholder, gstr)
    ELSE IF \/ StartsWith(low, <<"s", "p", "e", "i", " ", "e", "n", "v", "i", "a", "d", "o">>)
            \/ StartsWith(low, <<"s", "p", "e", "i", " ", "r", "e", "c", "i", "b", "i", "d", "o">>)
         THEN lbl \o <<":", " ">> \o gstr
    ELSE IF StartsWith(low, <<"d", "e", "v", "o", "l", "u", "c", "i", "ó", "n", " ", "d", "e", " ", "s", "p", "e", "i">>)
         THEN lbl \o <<":", " ">> \o gstr
    ELSE IF StartsWith(low, <<"r", "e", "t", "i", "r", "o", " ", "d", "e", " ", "r", "e", "c", "u", "r", "s", "o", "s">>)
         THEN lbl \o <<" ", "B", "e", "n", "e", "f", "i", "c", "i", "a", "r", "i", "o", " ">> \o gstr
    ELSE IF StartsWith(low, <<"e", "n", "t", "r", "e", "g", "a", " ", "d", "e", " ", "r", "e", "c", "u", "r", "s", "o", "s">>)
         THEN lbl \o <<" ">> \o gstr
    ELSE lbl \o <<" ">> \o gstr

\* (faulty variant) every template takes the generic branch
build_label_generic(lbl, g) ==
    IF g = None THEN lbl ELSE lbl \o <<" ">> \o CleanFragment(g)

build_label(lbl, g) ==
    IF g = None THEN lbl ELSE Template(lbl, LowerStr(lbl), CleanFragment(g))

-----------------------------------------------------------------------------
(* One pass of the loop of apply_rules_vectorized, for rule k, over the    *)
(* columns lab (label), rawc and normc.                                     *)

\* (faulty variant) the mask omitted: every record is taken as unset
UnassignedAll(lab) == DOMAIN lab

\* mask_unassigned: the records whose label is still None
Unassigned(lab) == {i \in DOMAIN lab : lab[i] = None}

\* df.loc[mask_unassigned, col].str.extract(pattern, expand=True)
Extracted(k, lab, col) == [i \in Unassigned(lab) |-> StrExtract(k, col[i])]

\* (faulty variant) dropna omitted: every row of extracted is kept
NotNaAll(extracted) == DOMAIN extracted

\* extracted.dropna(how="all").index
NotNa(extracted) == {i \in DOMAIN extracted : extracted[i] # None}

\* extracted.dropna(how="all").empty after the extraction from the raw text
FallsBack(k, lab, rawc) == NotNa(Extracted(k, lab, rawc)) = {}

\* (faulty variant) the fallback decided record by record
GroupExtractedPerRecord(k, lab, rawc, normc) ==
    [i \in Unassigned(lab) |->
        IF StrExtract(k, rawc[i]) # None THEN StrExtract(k, rawc[i])
        ELSE StrExtract(k, normc[i])]

\* extracted, after the fallback to the normalized text
GroupExtracted(k, lab, rawc, normc) ==
    IF FallsBack(k, lab, rawc) THEN Extracted(k, lab, normc)
    ELSE Extracted(k, lab, rawc)

\* the raw text with the boilerplate "Cargo a cuenta ... |" removed
CargoPattern ==
    Lit(<<"C", "a", "r", "g", "o", " ", "a", " ", "c", "u", "e", "n", "t", "a", " ",
          "p", "o", "r", " ", "d", "e", "p", "o", "s", "i", "t", "o", " ",
          "c", "o", "n", " ", "c", "h", "e", "q", "u", "e", " ">>)
    \o LazyStar(Dot) \o Lit(<<"|">>)

\* (faulty variant) the boilerplate left in the text
FixedKeep(k, t) == t

Fixed(k, t) ==
    IF Label(k) = <<"_", "_", "R", "A", "W", "_", "_", "p", "o", "r", "_", "m", "x", "n", "_", "c", "a", "r", "g", "o">>
    THEN ReSub(CargoPattern, <<>>, t)
    ELSE t

\* (faulty variant) literal-label rules searched in the raw text
PassIdxRaw(k, lab, rawc, normc) ==
    IF has_group(k) THEN NotNa(GroupExtracted(k, lab, rawc, normc))
    ELSE {i \in Unassigned(lab) : StrContains(k, rawc[i])}

\* idx: the records the pass assigns
PassIdx(k, lab, rawc, normc) ==
    IF has_group(k) THEN NotNa(GroupExtracted(k, lab, rawc, normc))
    ELSE IF Label(k) \in RAW_LABEL_SET
         THEN {i \in Unassigned(lab) : StrContains(k, rawc[i])}
    ELSE {i \in Unassigned(lab) : StrContains(k, normc[i])}

\* (faulty variant) the label of the first record of idx given to all of idx
PassLabelFirst(k, lab, rawc, normc, i) ==
    LET first == Least(PassIdx(k, lab, rawc, normc)) IN
    IF has_group(k)
    THEN build_label(Label(k), GroupExtracted(k, lab, rawc, normc)[first])
    ELSE IF Label(k) \in RAW_LABEL_SET THEN Strip(Fixed(k, rawc[first]))
    ELSE Label(k)

\* the label the pass gives record i of idx
PassLabel(k, lab, rawc, normc, i) ==
    IF has_group(k)
    THEN build_label(Label(k), GroupExtracted(k, lab, rawc, normc)[i])
    ELSE IF Label(k) \in RAW_LABEL_SET THEN Strip(Fixed(k, rawc[i]))
    ELSE Label(k)

\* df["label"] after the pass
PassColumn(k, lab, rawc, normc) ==
    LET idx == PassIdx(k, lab, rawc, normc) IN
    [i \in DOMAIN lab |->
        IF i \in idx THEN PassLabel(k, lab, rawc, normc, i) ELSE lab[i]]

\* (faulty variant) the unset labels left unset
FillNaSkip(lab) == lab

\* df["label"].fillna("UNKNOWN")
FillNa(lab) == [i \in DOMAIN lab |-> IF lab[i] = None THEN UNKNOWN ELSE lab[i]]

\* (faulty variant) fillna("") omitted: a missing value becomes the text "nan"
AsStrNan(col) ==
    [i \in DOMAIN col |-> IF col[i] = None THEN <<"n", "a", "n">> ELSE Str(col[i])]

\* df[text_col].fillna("").astype(str)
AsStr(col) == [i \in DOMAIN col |-> IF col[i] = None THEN <<>> ELSE Str(col[i])]

NormColumn(col) == [i \in DOMAIN col |-> normalize_text(AsStr(col)[i])]

RawColumn(col) == AsStr(col)

\* apply_rules_vectorized as a function of the description column: the
\* passes of rules r, r + 1, ... until no record is unset, then fillna
RECURSIVE RunRules(_, _, _, _)
RunRules(r, lab, rawc, normc) ==
    IF r > NumRules \/ Unassigned(lab) = {} THEN lab
    ELSE RunRules(r + 1, PassColumn(r, lab, rawc, normc), rawc, normc)

Classify(col) ==
    FillNa(RunRules(1, [i \in DOMAIN col |-> None], RawColumn(col), NormColumn(col)))

-----------------------------------------------------------------------------
(* universal_video_downloader/Download_videos.py: the values worker and    *)
(* parse_and_download handle.  What a download helper finds on the network *)
(* is any of its possible results.                                         *)

MaxMedia == 2    \* media URLs a page or a capture yields

\* a media URL, by what the tests of the program see in it:
\* an HLS manifest, a DASH manifest, a video file
Kinds == {"m3u8", "mpd", "mp4"}

MediaLists == UNION {[1..n -> Kinds] : n \in 0..MaxMedia}

Urls == {"", " '' ", "http://a/v"}

\* sanitize_url on these URLs: backslashes removed, spaces and quotes stripped
sanitize_url(s) == IF s \in {"", " '' "} THEN "" ELSE s

Options == [no_yt : BOOLEAN, use_selenium : BOOLEAN]

\* re.search(r"\.(m3u8|mpd)(\?|$)", m) or re.search(r"/manifest(\?|$)|/playlist(\?|$)", m)
IsManifest(m) == m \in {"m3u8", "mpd"}

\* re.search(r"\.m3u8(\?|$)", m)
IsM3u8(m) == m = "m3u8"

\* what yt_dlp_detects_block makes of the output of yt-dlp
Blocks == {"PIRACY_BLOCK", "UNKNOWN_ALG", "EXTRACTOR_ERROR", "None"}

\* the output of yt-dlp, in lower case, by the phrases of
\* yt_dlp_detects_block that it holds ({}: none of them, or no output)
Outputs ==
    {{}, {"[piracy]"}, {"unknown algorithm"}, {"[piracy]", "unknown algorithm"},
     {"this website is no longer supported", "http error"}}

\* (faulty variant) the phrases of the piracy block are not looked for
yt_dlp_detects_no_piracy(out) ==
    IF "unknown algorithm id" \in out \/ "unknown algorithm" \in out THEN "UNKNOWN_ALG"
    ELSE IF "extractor error" \in out \/ "http error" \in out THEN "EXTRACTOR_ERROR"
    ELSE "None"

\* lines 156-171
yt_dlp_detects_block(out) ==
    IF "this website is no longer supported" \in out \/ "[piracy]" \in out THEN "PIRACY_BLOCK"
    ELSE IF "unknown algorithm id" \in out \/ "unknown algorithm" \in out THEN "UNKNOWN_ALG"
    ELSE IF "extractor error" \in out \/ "http error" \in out THEN "EXTRACTOR_ERROR"
    ELSE "None"

NoResult == [ok |-> FALSE, msg |-> ""]

\* a call of a download helper and whether it downloaded the video
Called(name, ok) == [call |-> name, downloaded |-> ok, said |-> {}]

\* a run of yt-dlp, whether it downloaded the video, and its output
Ran(name, ok, out) == [call |-> name, downloaded |-> ok, said |-> out]

\* the worker is not running
WorkerIdle ==
    /\ wpc = "idle"
    /\ opts = [no_yt |-> FALSE, use_selenium |-> FALSE]
    /\ url = ""
    /\ media = <<>>
    /\ mi = 0
    /\ caps = <<>>
    /\ ci = 0
    /\ ret = "worker"
    /\ pok = FALSE
    /\ log = <<>>
    /\ result = NoResult

-----------------------------------------------------------------------------
(* download_direct_file of universal_video_downloader/Download_videos.py:  *)
(* its values.                                                             *)

MaxRetries == 3    \* largest max_retries given

\* str(e) of what session.get, raise_for_status or the writing of the
\* chunks raised
Errors == {"404 Client Error", "Read timed out", "No space left on device"}

\* str(None), the last_err of line 355 inside the f-string of line 375
NoErr == "None"

\* str(n) inside an f-string
Decimal(n) == <<"0", "1", "2", "3", "4", "5", "6", "7", "8", "9">>[n + 1]

\* (faulty variant) the range runs one further
AttemptsOneMore(n) == 1..(n + 1)

\* line 356: range(1, max_retries + 1)
Attempts(n) == 1..n

\* download_direct_file has not returned
NoReturn == [ok |-> FALSE, msg |-> <<>>]

\* line 371
Downloaded == [ok |-> TRUE, msg |-> <<"descargado directo: ", "outpath">>]

\* line 375
Failed(n, err) ==
    [ok |-> FALSE,
     msg |-> <<"error descarga directa tras ", Decimal(n), " intentos: ", err>>]

\* download_direct_file is not running
DirectIdle ==
    /\ dpc = "idle"
    /\ max_retries = 0
    /\ attempt = 0
    /\ last_err = NoErr
    /\ sent = <<>>
    /\ slept = 0
    /\ dret = NoReturn

-----------------------------------------------------------------------------
(* The thread pool of the downloader's main, lines 770-781: its values.    *)

MaxUrls == 3       \* most URLs given
MaxWorkers == 2    \* largest args.workers

\* the lines of the input file after sanitize_url, or args.url stripped
UrlLists == UNION {[1..n -> {"", "http://a/v", "http://b/v"}] : n \in 0..MaxUrls}

\* str(e) of what worker raised
Raised == {"[Errno 13] Permission denied"}

\* a future of ex.submit(worker, url, outdir, opts)
Future(u) == [url |-> u, state |-> "PENDING", result |-> <<>>, exception |-> NoErr]

\* what worker(url, outdir, opts) may return, lines 559-653
Returns(u) ==
    IF sanitize_url(u) = ""
    THEN {[url |-> "", ok |-> FALSE, msg |-> <<"URL vacía after sanitize">>]}
    ELSE {[url |-> sanitize_url(u), ok |-> TRUE, msg |-> <<"Descargado con yt-dlp">>],
          [url |-> sanitize_url(u), ok |-> FALSE, msg |-> <<"Todas las estrategias fallaron">>]}

\* (faulty variant) the except clause records nothing
RecordedReturnsOnly(rs, fut) ==
    IF fut.exception = NoErr THEN Append(rs, fut.result) ELSE rs

\* lines 773-781: fut.result() and the append of either branch
Recorded(rs, fut) ==
    IF fut.exception = NoErr
    THEN Append(rs, fut.result)
    ELSE Append(rs, [url |-> fut.url, ok |-> FALSE,
                     msg |-> <<"Excepción: ", fut.exception>>])

\* main is not running
PoolIdle ==
    /\ mpc = "idle"
    /\ urls = <<>>
    /\ workers = 1
    /\ futures = <<>>
    /\ taken = <<>>
    /\ results = <<>>
    /\ thread = "MainThread"

-----------------------------------------------------------------------------
(* procesar_carpeta of transcribir_audio_ogg.py: its values.               *)

MaxFiles == 2      \* most .ogg files in the folder

MIN_AUDIO_MS == 400

\* the stems of the .ogg files
Stems == {"a", "b", "c"}

\* ogg_files: files of the folder, each once, by creation time
OggLists ==
    {f \in UNION {[1..n -> Stems] : n \in 0..MaxFiles} :
        \A j, k \in DOMAIN f : j # k => f[j] # f[k]}

\* len(audio) of the converted file, in milliseconds
Durations == {0, 399, 400, 1200}

\* what transcribir_con_vosk returns: a text, empty when nothing was heard
Texts == {"", "hola"}

\* procesar_carpeta is not running
VoskIdle ==
    /\ vpc = "idle"
    /\ ogg_files = <<>>
    /\ vi = 0
    /\ model = FALSE
    /\ wavs = {}
    /\ dur_ms = 0
    /\ out_f = <<>>
    /\ notas = <<>>

-----------------------------------------------------------------------------
(* main: the table read from the CSV file, the check of its columns, the   *)
(* call of apply_rules_vectorized and the table written.                   *)

DESCRIPTION_COL == "Descripción"

norm_col == DESCRIPTION_COL \o "_norm"

raw_col == DESCRIPTION_COL \o "_raw"

\* the descriptions of the tables main reads
MainDescriptions == {ChequePlain, Padded, None}

MainBatches == UNION {[1..n -> MainDescriptions] : n \in 1..MaxBatch}

\* df.columns of the tables main reads
Layouts ==
    {<<DESCRIPTION_COL>>,
     <<"Monto", DESCRIPTION_COL>>,
     <<DESCRIPTION_COL, "label">>,
     <<DESCRIPTION_COL, norm_col, "Monto">>,
     <<raw_col, DESCRIPTION_COL>>,
     <<"Monto">>,
     <<"label", "Monto">>}

\* the amount in row i
Amount(i) == [k \in 1..i |-> "7"]

\* the value a cell of the file holds in a column the program writes
Old == <<"o", "l", "d">>

\* the column called name of a table whose descriptions are descs
Cells(name, descs) ==
    IF name = DESCRIPTION_COL THEN descs
    ELSE IF name = "Monto" THEN [i \in DOMAIN descs |-> Amount(i)]
    ELSE [i \in DOMAIN descs |-> Old]

Table(cols, descs) == [cols |-> cols, data |-> [k \in DOMAIN cols |-> Cells(cols[k], descs)]]

Tables == {Table(l, d) : l \in Layouts, d \in MainBatches}

\* name in df.columns
Has(cols, name) == \E k \in DOMAIN cols : cols[k] = name

\* (faulty variant) the column is taken to be there
LacksNever(cols, name) == FALSE

\* name not in df.columns
Lacks(cols, name) == ~Has(cols, name)

\* t[name], a column of None where the table has no such column
Column(t, name) ==
    IF Has(t.cols, name)
    THEN t.data[CHOOSE k \in DOMAIN t.cols : t.cols[k] = name]
    ELSE [i \in DOMAIN t.data[1] |-> None]

\* df[name] = ...: a new column goes to the end
WithColumn(cols, name) == IF Has(cols, name) THEN cols ELSE Append(cols, name)

\* (faulty variant) the working columns are not dropped
KeptAll(cols) == cols

\* df.drop(columns=[c for c in (norm_col, raw_col) if c in df.columns])
Kept(cols) == SelectSeq(cols, LAMBDA c : c \notin {norm_col, raw_col})

\* the f-string of the ValueError, part by part
Message(col) == <<"La columna '", col, "' no existe en el archivo CSV">>

NoTable == [cols |-> <<>>, data |-> <<>>]

NoError == <<>>

-----------------------------------------------------------------------------
(* apply_rules_vectorized, one loop iteration at a time, called on a table *)
(* or by main.                                                             *)

\* apply_rules_vectorized is called on a table that has the description column
InitApply ==
    /\ text \in Batches
    /\ entry = "apply_rules_vectorized"
    /\ given = Table(<<DESCRIPTION_COL>>, text)
    /\ pc = "call"

\* line 229: main has read the file
InitMain ==
    /\ given \in Tables
    /\ entry = "main"
    /\ text = Column(given, DESCRIPTION_COL)
    /\ pc = "main"

Init ==
    /\ (InitApply \/ InitMain)
    /\ columns = given.cols
    /\ label = Column(given, "label")
    /\ norm = Column(given, norm_col)
    /\ raw = Column(given, raw_col)
    /\ other = Column(given, "Monto")
    /\ method = [i \in DOMAIN text |-> 0]
    /\ used = [r \in 1..NumRules |-> "none"]
    /\ rule = 0
    /\ run = 1
    /\ prev = [i \in DOMAIN text |-> None]
    /\ written = NoTable
    /\ error = NoError
    /\ WorkerIdle
    /\ DirectIdle
    /\ PoolIdle
    /\ VoskIdle

\* lines 230-231: the description column is missing
Raise ==
    /\ pc = "main"
    /\ Lacks(columns, DESCRIPTION_COL)
    /\ error' = Message(DESCRIPTION_COL)
    /\ pc' = "raised"
    /\ UNCHANGED <<text, label, norm, raw, method, used, rule, run, prev,
                   entry, given, columns, other, written, downloader, direct, pool, vosk>>

\* line 233: main calls apply_rules_vectorized
Call ==
    /\ pc = "main"
    /\ ~Lacks(columns, DESCRIPTION_COL)
    /\ pc' = "call"
    /\ UNCHANGED <<text, label, norm, raw, method, used, rule, run, prev,
                   entry, given, columns, other, written, error, downloader, direct, pool, vosk>>

\* (faulty variant) the normalized text written back into the description column
EnterDirty ==
    /\ pc = "call"
    /\ label' = [i \in DOMAIN text |-> None]
    /\ norm' = NormColumn(text)
    /\ raw' = RawColumn(text)
    /\ text' = NormColumn(text)
    /\ method' = [i \in DOMAIN text |-> 0]
    /\ used' = [r \in 1..NumRules |-> "none"]
    /\ pc' = "rules"
    /\ rule' = 1
    /\ columns' = WithColumn(WithColumn(WithColumn(columns, "label"), norm_col), raw_col)
    /\ UNCHANGED <<run, prev, entry, given, other, written, error, downloader, direct, pool, vosk>>

\* lines 137-146: the label column is reset, the working columns are built
Enter ==
    /\ pc = "call"
    /\ label' = [i \in DOMAIN text |-> None]
    /\ norm' = NormColumn(text)
    /\ raw' = RawColumn(text)
    /\ method' = [i \in DOMAIN text |-> 0]
    /\ used' = [r \in 1..NumRules |-> "none"]
    /\ pc' = "rules"
    /\ rule' = 1
    /\ columns' = WithColumn(WithColumn(WithColumn(columns, "label"), norm_col), raw_col)
    /\ UNCHANGED <<text, run, prev, entry, given, other, written, error, downloader, direct, pool, vosk>>

\* the column the pass of rule r reads for the records it assigns
UsedColumn(r, lab, rawc) ==
    IF has_group(r) THEN (IF FallsBack(r, lab, rawc) THEN "norm" ELSE "raw")
    ELSE IF Label(r) \in RAW_LABEL_SET THEN "raw"
    ELSE "norm"

\* (faulty variant) the loop goes on to the next rule with no record unset
BreakLate ==
    /\ pc = "rules"
    /\ rule <= NumRules
    /\ Unassigned(label) = {}
    /\ used' = [used EXCEPT ![rule] = UsedColumn(rule, label, raw)]
    /\ rule' = rule + 1
    /\ UNCHANGED <<text, label, norm, raw, method, pc, run, prev,
                   entry, given, columns, other, written, error, downloader, direct, pool, vosk>>

\* lines 149-151: no record is unset, the loop is left
Break ==
    /\ pc = "rules"
    /\ rule <= NumRules
    /\ Unassigned(label) = {}
    /\ pc' = "fillna"
    /\ UNCHANGED <<text, label, norm, raw, method, used, rule, run, prev,
                   entry, given, columns, other, written, error, downloader, direct, pool, vosk>>

\* lines 153-220: the pass of the rule
RulePass ==
    /\ pc = "rules"
    /\ rule <= NumRules
    /\ Unassigned(label) # {}
    /\ label' = PassColumn(rule, label, raw, norm)
    /\ method' = [i \in DOMAIN method |->
                    IF i \in PassIdx(rule, label, raw, norm) THEN rule ELSE method[i]]
    /\ used' = [used EXCEPT ![rule] = UsedColumn(rule, label, raw)]
    /\ rule' = rule + 1
    /\ UNCHANGED <<text, norm, raw, pc, run, prev,
                   entry, given, columns, other, written, error, downloader, direct, pool, vosk>>

\* line 148: compiled_rules is exhausted
Exhausted ==
    /\ pc = "rules"
    /\ rule > NumRules
    /\ pc' = "fillna"
    /\ UNCHANGED <<text, label, norm, raw, method, used, rule, run, prev,
                   entry, given, columns, other, written, error, downloader, direct, pool, vosk>>

\* lines 222-225
Return ==
    /\ pc = "fillna"
    /\ label' = FillNa(label)
    /\ pc' = "done"
    /\ UNCHANGED <<text, norm, raw, method, used, rule, run, prev,
                   entry, given, columns, other, written, error, downloader, direct, pool, vosk>>

\* apply_rules_vectorized is called again on the table it returned
Again ==
    /\ pc = "done"
    /\ entry = "apply_rules_vectorized"
    /\ run < MaxRuns
    /\ prev' = label
    /\ run' = run + 1
    /\ pc' = "call"
    /\ UNCHANGED <<text, label, norm, raw, method, used, rule,
                   entry, given, columns, other, written, error, downloader, direct, pool, vosk>>

\* df[name]
Df(name, desc, lab, nrm, rw, oth) ==
    IF name = DESCRIPTION_COL THEN desc
    ELSE IF name = "label" THEN lab
    ELSE IF name = norm_col THEN nrm
    ELSE IF name = raw_col THEN rw
    ELSE oth

\* lines 235-239: the working columns are dropped and the table is written
Write ==
    /\ pc = "done"
    /\ entry = "main"
    /\ columns' = Kept(columns)
    /\ written' = [cols |-> columns',
                   data |-> [k \in DOMAIN columns' |->
                                Df(columns'[k], text, label, norm, raw, other)]]
    /\ pc' = "written"
    /\ UNCHANGED <<text, label, norm, raw, method, used, rule, run, prev,
                   entry, given, other, error, downloader, direct, pool, vosk>>

Next ==
    \/ Raise \/ Call \/ Enter \/ Break \/ RulePass \/ Exhausted \/ Return
    \/ Again \/ Write

Spec == Init /\ [][Next]_vars

-----------------------------------------------------------------------------
(* worker and parse_and_download, one call of a download helper at a time. *)

\* no table is being classified
BankIdle ==
    /\ text = <<>>
    /\ label = <<>>
    /\ norm = <<>>
    /\ raw = <<>>
    /\ method = <<>>
    /\ used = [r \in 1..NumRules |-> "none"]
    /\ pc = "idle"
    /\ rule = 0
    /\ run = 1
    /\ prev = <<>>
    /\ entry = "worker"
    /\ given = NoTable
    /\ columns = <<>>
    /\ other = <<>>
    /\ written = NoTable
    /\ error = NoError

\* worker(url, outdir, opts) is called
InitWorker ==
    /\ BankIdle
    /\ wpc = "worker"
    /\ opts \in Options
    /\ url \in Urls
    /\ media = <<>>
    /\ mi = 0
    /\ caps = <<>>
    /\ ci = 0
    /\ ret = "worker"
    /\ pok = FALSE
    /\ log = <<>>
    /\ result = NoResult
    /\ DirectIdle
    /\ PoolIdle
    /\ VoskIdle

\* lines 559-561
EmptyUrl ==
    /\ wpc = "worker"
    /\ sanitize_url(url) = ""
    /\ url' = sanitize_url(url)
    /\ result' = [ok |-> FALSE, msg |-> "URL vacía after sanitize"]
    /\ wpc' = "returned"
    /\ UNCHANGED <<bank, direct, pool, vosk, opts, media, mi, caps, ci, ret, pok, log>>

\* lines 559-571
Begin ==
    /\ wpc = "worker"
    /\ sanitize_url(url) # ""
    /\ url' = sanitize_url(url)
    /\ wpc' = IF opts.no_yt THEN "parse" ELSE "ytdlp"
    /\ ret' = "worker"
    /\ UNCHANGED <<bank, direct, pool, vosk, opts, media, mi, caps, ci, pok, log, result>>

\* lines 572-583: download_with_ytdlp and what worker does with its result
YtDlp ==
    /\ wpc = "ytdlp"
    /\ \E ok \in BOOLEAN : \E out \in Outputs :
        /\ log' = Append(log, Ran("download_with_ytdlp", ok, IF ok THEN {} ELSE out))
        /\ IF ok
           THEN result' = [ok |-> TRUE, msg |-> "yt-dlp OK"] /\ wpc' = "returned"
           ELSE IF yt_dlp_detects_block(out) = "PIRACY_BLOCK"
           THEN /\ result' = [ok |-> FALSE, msg |-> "yt-dlp bloquea este sitio por política (Piracy). No se puede forzar."]
                /\ wpc' = "returned"
           ELSE result' = result /\ wpc' = "parse"
    /\ UNCHANGED <<bank, direct, pool, vosk, opts, url, media, mi, caps, ci, ret, pok>>

\* lines 486-491, 502-503: find_media_urls_from_html
FindHtml ==
    /\ wpc = "parse"
    /\ \E found \in MediaLists :
        /\ media' = found
        /\ wpc' = IF found # <<>> THEN "hls"
                  ELSE IF opts.use_selenium THEN "parse_selenium"
                  ELSE "parse_return"
    /\ log' = Append(log, Called("find_media_urls_from_html", FALSE))
    /\ mi' = 1
    /\ pok' = FALSE
    /\ UNCHANGED <<bank, direct, pool, vosk, opts, url, caps, ci, ret, result>>

\* lines 492-503: capture_with_selenium, the page gave no media URL
ParseSelenium ==
    /\ wpc = "parse_selenium"
    /\ \E cap \in MediaLists :
        /\ media' = cap
        /\ wpc' = IF cap # <<>> THEN "hls" ELSE "parse_return"
    /\ log' = Append(log, Called("capture_with_selenium", FALSE))
    /\ mi' = 1
    /\ pok' = FALSE
    /\ UNCHANGED <<bank, direct, pool, vosk, opts, url, caps, ci, ret, result>>

\* lines 506-509: a media URL that is no manifest is passed over
HlsSkip ==
    /\ wpc = "hls"
    /\ mi <= Len(media)
    /\ ~IsManifest(media[mi])
    /\ mi' = mi + 1
    /\ UNCHANGED <<bank, direct, pool, vosk, wpc, opts, url, media, caps, ci, ret, pok, log, result>>

\* lines 506-522: download_hls_with_ffmpeg on a manifest
HlsTry ==
    /\ wpc = "hls"
    /\ mi <= Len(media)
    /\ IsManifest(media[mi])
    /\ \E ok \in BOOLEAN :
        /\ log' = Append(log, Called("download_hls_with_ffmpeg", ok))
        /\ pok' = ok
        /\ wpc' = IF ok THEN "parse_return" ELSE "hls"
        /\ mi' = IF ok THEN mi ELSE mi + 1
    /\ UNCHANGED <<bank, direct, pool, vosk, opts, url, media, caps, ci, ret, result>>

\* line 506: the first loop is over
HlsEnd ==
    /\ wpc = "hls"
    /\ mi > Len(media)
    /\ wpc' = "direct"
    /\ mi' = 1
    /\ UNCHANGED <<bank, direct, pool, vosk, opts, url, media, caps, ci, ret, pok, log, result>>

\* lines 525-543: download_direct_file on a media URL
DirectTry ==
    /\ wpc = "direct"
    /\ mi <= Len(media)
    /\ \E ok \in BOOLEAN :
        /\ log' = Append(log, Called("download_direct_file", ok))
        /\ pok' = ok
        /\ wpc' = IF ok THEN "parse_return" ELSE "direct"
        /\ mi' = IF ok THEN mi ELSE mi + 1
    /\ UNCHANGED <<bank, direct, pool, vosk, opts, url, media, caps, ci, ret, result>>

\* line 545: no media URL could be downloaded
DirectEnd ==
    /\ wpc = "direct"
    /\ mi > Len(media)
    /\ pok' = FALSE
    /\ wpc' = "parse_return"
    /\ UNCHANGED <<bank, direct, pool, vosk, opts, url, media, mi, caps, ci, ret, log, result>>

\* lines 586-588, 591: parse_and_download returns to worker
ParseReturn ==
    /\ wpc = "parse_return"
    /\ ret = "worker"
    /\ IF pok
       THEN result' = [ok |-> TRUE, msg |-> "parse_and_download OK"] /\ wpc' = "returned"
       ELSE IF opts.no_yt
       THEN result' = [ok |-> FALSE, msg |-> "Todas las estrategias fallaron"] /\ wpc' = "returned"
       ELSE result' = result /\ wpc' = "subprocess"
    /\ UNCHANGED <<bank, direct, pool, vosk, opts, url, media, mi, caps, ci, ret, pok, log>>

\* lines 592-653: yt-dlp run by subprocess.run; its return code is not read
Subprocess ==
    /\ wpc = "subprocess"
    /\ \E raised \in BOOLEAN : \E ok \in BOOLEAN : \E out \in Outputs :
        /\ raised => (~ok /\ out = {})
        /\ ok => out = {}
        /\ log' = Append(log, Ran("subprocess.run yt-dlp", ok, out))
        /\ IF raised
           THEN /\ result' = [ok |-> FALSE, msg |-> "Todas las estrategias fallaron"]
                /\ wpc' = "returned"
           ELSE IF yt_dlp_detects_block(out) = "PIRACY_BLOCK"
           THEN /\ result' = [ok |-> FALSE, msg |-> "yt-dlp bloquea este sitio por política (Piracy). No se puede forzar."]
                /\ wpc' = "returned"
           ELSE IF yt_dlp_detects_block(out) = "UNKNOWN_ALG" /\ opts.use_selenium
           THEN result' = result /\ wpc' = "fallback_selenium"
           ELSE IF yt_dlp_detects_block(out) = "UNKNOWN_ALG"
           THEN /\ result' = [ok |-> FALSE, msg |-> "yt-dlp error de algoritmo desconocido; se intentó fallback sin éxito."]
                /\ wpc' = "returned"
           ELSE /\ result' = [ok |-> FALSE, msg |-> "Todas las estrategias fallaron"]
                /\ wpc' = "returned"
    /\ UNCHANGED <<bank, direct, pool, vosk, opts, url, media, mi, caps, ci, ret, pok>>

\* lines 618-625: capture_with_selenium after an unknown algorithm
FallbackSelenium ==
    /\ wpc = "fallback_selenium"
    /\ \E cap \in MediaLists : caps' = cap
    /\ ci' = 1
    /\ log' = Append(log, Called("capture_with_selenium", FALSE))
    /\ wpc' = "fallback_loop"
    /\ UNCHANGED <<bank, direct, pool, vosk, opts, url, media, mi, ret, pok, result>>

\* lines 627-639: download_hls_with_ffmpeg on a captured .m3u8
FallbackHls ==
    /\ wpc = "fallback_loop"
    /\ ci <= Len(caps)
    /\ IsM3u8(caps[ci])
    /\ \E ok \in BOOLEAN :
        /\ log' = Append(log, Called("download_hls_with_ffmpeg", ok))
        /\ IF ok
           THEN /\ result' = [ok |-> TRUE, msg |-> "Selenium fallback OK"]
                /\ wpc' = "returned"
                /\ ci' = ci
           ELSE result' = result /\ wpc' = "fallback_loop" /\ ci' = ci + 1
    /\ UNCHANGED <<bank, direct, pool, vosk, opts, url, media, mi, caps, ret, pok>>

\* lines 640-641: parse_and_download on a captured URL that is no .m3u8
FallbackParse ==
    /\ wpc = "fallback_loop"
    /\ ci <= Len(caps)
    /\ ~IsM3u8(caps[ci])
    /\ ret' = "fallback"
    /\ wpc' = "parse"
    /\ UNCHANGED <<bank, direct, pool, vosk, opts, url, media, mi, caps, ci, pok, log, result>>

\* lines 641-643: parse_and_download returns to the loop over the captures
FallbackReturn ==
    /\ wpc = "parse_return"
    /\ ret = "fallback"
    /\ IF pok
       THEN /\ result' = [ok |-> TRUE, msg |-> "Selenium fallback OK"]
            /\ wpc' = "returned"
            /\ ci' = ci
       ELSE result' = result /\ wpc' = "fallback_loop" /\ ci' = ci + 1
    /\ ret' = "worker"
    /\ UNCHANGED <<bank, direct, pool, vosk, opts, url, media, mi, caps, pok, log>>

\* lines 644-648: no capture could be downloaded
FallbackEnd ==
    /\ wpc = "fallback_loop"
    /\ ci > Len(caps)
    /\ result' = [ok |-> FALSE, msg |-> "yt-dlp error de algoritmo desconocido; se intentó fallback sin éxito."]
    /\ wpc' = "returned"
    /\ UNCHANGED <<bank, direct, pool, vosk, opts, url, media, mi, caps, ci, ret, pok, log>>

NextWorker ==
    \/ EmptyUrl \/ Begin \/ YtDlp \/ FindHtml \/ ParseSelenium
    \/ HlsSkip \/ HlsTry \/ HlsEnd \/ DirectTry \/ DirectEnd \/ ParseReturn
    \/ Subprocess \/ FallbackSelenium \/ FallbackHls \/ FallbackParse
    \/ FallbackReturn \/ FallbackEnd

SpecWorker == InitWorker /\ [][NextWorker]_vars

-----------------------------------------------------------------------------
(* download_direct_file(url, outpath, headers, cookies, proxy,             *)
(* max_retries, timeout), lines 340-375. Each session.get ends: it is      *)
(* given timeout=30.                                                       *)

InitDirect ==
    /\ BankIdle
    /\ WorkerIdle
    /\ PoolIdle
    /\ VoskIdle
    /\ dpc = "call"
    /\ max_retries \in 0..MaxRetries
    /\ attempt = 0
    /\ last_err = NoErr
    /\ sent = <<>>
    /\ slept = 0
    /\ dret = NoReturn

\* lines 343-355: the folder, the session, last_err = None
Setup ==
    /\ dpc = "call"
    /\ last_err' = NoErr
    /\ dpc' = "for"
    /\ UNCHANGED <<bank, downloader, pool, vosk, max_retries, attempt, sent, slept, dret>>

\* line 343: ensure_dir raises (mkdir), outside any try
SetupRaises ==
    /\ dpc = "call"
    /\ dpc' = "raised"
    /\ UNCHANGED <<bank, downloader, pool, vosk, max_retries, attempt, last_err, sent,
                   slept, dret>>

\* line 356: the for takes the next value of the range
ForNext ==
    /\ dpc = "for"
    /\ attempt + 1 \in Attempts(max_retries)
    /\ attempt' = attempt + 1
    /\ dpc' = "get"
    /\ UNCHANGED <<bank, downloader, pool, vosk, max_retries, last_err, sent, slept, dret>>

\* lines 357-371: the request and the writing of the file complete
GetOk ==
    /\ dpc = "get"
    /\ sent' = Append(sent, "ok")
    /\ dret' = Downloaded
    /\ dpc' = "returned"
    /\ UNCHANGED <<bank, downloader, pool, vosk, max_retries, attempt, last_err, slept>>

\* lines 357-373: the request, the status or the writing raises
GetFails ==
    /\ dpc = "get"
    /\ \E e \in Errors :
        /\ sent' = Append(sent, e)
        /\ last_err' = e
    /\ dpc' = "sleep"
    /\ UNCHANGED <<bank, downloader, pool, vosk, max_retries, attempt, slept, dret>>

\* line 374
Sleep ==
    /\ dpc = "sleep"
    /\ slept' = slept + 1 + attempt
    /\ dpc' = "for"
    /\ UNCHANGED <<bank, downloader, pool, vosk, max_retries, attempt, last_err, sent, dret>>

\* lines 356, 375: the range is used up
GiveUp ==
    /\ dpc = "for"
    /\ attempt + 1 \notin Attempts(max_retries)
    /\ dret' = Failed(max_retries, last_err)
    /\ dpc' = "returned"
    /\ UNCHANGED <<bank, downloader, pool, vosk, max_retries, attempt, last_err, sent, slept>>

NextDirect ==
    \/ Setup
    \/ SetupRaises
    \/ ForNext
    \/ GetOk
    \/ GetFails
    \/ Sleep
    \/ GiveUp

SpecDirect == InitDirect /\ [][NextDirect]_vars

\* a step of download_direct_file that can be taken is taken: the function
\* runs in its thread until it returns
FairDirect == SpecDirect /\ WF_vars(NextDirect)

-----------------------------------------------------------------------------
(* main, lines 770-781: the thread pool. The main thread submits one       *)
(* worker call per URL and takes the futures as they complete; at most     *)
(* args.workers calls run at a time, each in a thread of the pool.         *)

InitPool ==
    /\ BankIdle
    /\ WorkerIdle
    /\ DirectIdle
    /\ VoskIdle
    /\ mpc = "submit"
    /\ urls \in UrlLists
    /\ workers \in 1..MaxWorkers
    /\ futures = <<>>
    /\ taken = <<>>
    /\ results = <<>>
    /\ thread = "MainThread"

\* the calls of worker that are running
Running == {i \in DOMAIN futures : futures[i].state = "RUNNING"}

\* the futures that are done and that as_completed has not yielded yet
Completed ==
    {i \in DOMAIN futures :
        /\ futures[i].state = "FINISHED"
        /\ \A k \in DOMAIN taken : taken[k] # i}

\* line 772: ex.submit(worker, url, outdir, opts) for the next url
Submit ==
    /\ mpc = "submit"
    /\ Len(futures) < Len(urls)
    /\ futures' = Append(futures, Future(urls[Len(futures) + 1]))
    /\ thread' = "MainThread"
    /\ UNCHANGED <<bank, downloader, direct, vosk, mpc, urls, workers, taken, results>>

\* line 773: every url is submitted, as_completed(futures) starts
Collect ==
    /\ mpc = "submit"
    /\ Len(futures) = Len(urls)
    /\ mpc' = "as_completed"
    /\ thread' = "MainThread"
    /\ UNCHANGED <<bank, downloader, direct, vosk, urls, workers, futures, taken, results>>

\* a thread of the pool is free and takes the oldest call waiting
Start ==
    /\ Cardinality(Running) < workers
    /\ \E i \in DOMAIN futures :
        /\ futures[i].state = "PENDING"
        /\ \A j \in 1..(i - 1) : futures[j].state # "PENDING"
        /\ futures' = [futures EXCEPT ![i].state = "RUNNING"]
    /\ thread' = "ThreadPoolExecutor"
    /\ UNCHANGED <<bank, downloader, direct, vosk, mpc, urls, workers, taken, results>>

\* worker returns (url, ok, msg) in its thread
WorkerReturns ==
    /\ \E i \in Running : \E r \in Returns(futures[i].url) :
        futures' = [futures EXCEPT ![i].state = "FINISHED", ![i].result = r]
    /\ thread' = "ThreadPoolExecutor"
    /\ UNCHANGED <<bank, downloader, direct, vosk, mpc, urls, workers, taken, results>>

\* worker raises in its thread: the future keeps the exception
WorkerRaises ==
    /\ \E i \in Running : \E x \in Raised :
        futures' = [futures EXCEPT ![i].state = "FINISHED", ![i].exception = x]
    /\ thread' = "ThreadPoolExecutor"
    /\ UNCHANGED <<bank, downloader, direct, vosk, mpc, urls, workers, taken, results>>

\* lines 773-781: as_completed yields a future that is done, and the body
\* of the for records it
Take ==
    /\ mpc = "as_completed"
    /\ \E i \in Completed :
        /\ taken' = Append(taken, i)
        /\ results' = Recorded(results, futures[i])
    /\ thread' = "MainThread"
    /\ UNCHANGED <<bank, downloader, direct, vosk, mpc, urls, workers, futures>>

\* lines 773, 783: as_completed has yielded every future
Summary ==
    /\ mpc = "as_completed"
    /\ Len(taken) = Len(futures)
    /\ mpc' = "summary"
    /\ thread' = "MainThread"
    /\ UNCHANGED <<bank, downloader, direct, vosk, urls, workers, futures, taken, results>>

NextPool ==
    \/ Submit
    \/ Collect
    \/ Start
    \/ WorkerReturns
    \/ WorkerRaises
    \/ Take
    \/ Summary

SpecPool == InitPool /\ [][NextPool]_vars

-----------------------------------------------------------------------------
(* procesar_carpeta of transcribir_audio_ogg.py, lines 237-280: the for    *)
(* over ogg_files.                                                         *)

InitVosk ==
    /\ BankIdle
    /\ WorkerIdle
    /\ DirectIdle
    /\ PoolIdle
    /\ vpc = "for"
    /\ ogg_files \in OggLists
    /\ vi = 0
    /\ model \in BOOLEAN
    /\ wavs = {}
    /\ dur_ms = 0
    /\ out_f = <<>>
    /\ notas = <<>>

\* ogg of the for
Ogg == ogg_files[vi]

\* lines 238-245: the next file; its header is written
NextFile ==
    /\ vpc = "for"
    /\ vi < Len(ogg_files)
    /\ vi' = vi + 1
    /\ out_f' = Append(out_f, <<"=== Archivo: ", ogg_files[vi + 1]>>)
    /\ vpc' = "convert"
    /\ UNCHANGED <<bank, downloader, direct, pool, ogg_files, model, wavs, dur_ms, notas>>

\* lines 247-248: convertir_ogg_a_wav_normalizado exports the WAV
ConvertOk ==
    /\ vpc = "convert"
    /\ wavs' = wavs \cup {Ogg}
    /\ notas' = Append(notas, <<"Convertido: ", Ogg>>)
    /\ vpc' = "load"
    /\ UNCHANGED <<bank, downloader, direct, pool, ogg_files, vi, model, dur_ms, out_f>>

\* line 247: convertir_ogg_a_wav_normalizado raises, before audio.export
\* (line 70) or inside it with the file already opened for writing
ConvertRaises ==
    /\ vpc = "convert"
    /\ \E exported \in BOOLEAN :
        wavs' = IF exported THEN wavs \cup {Ogg} ELSE wavs
    /\ vpc' = "except"
    /\ UNCHANGED <<bank, downloader, direct, pool, ogg_files, vi, model, dur_ms, out_f, notas>>

\* lines 251-253
LoadOk ==
    /\ vpc = "load"
    /\ \E d \in Durations : dur_ms' = d
    /\ notas' = Append(notas, <<"Duración (ms): ", Ogg>>)
    /\ vpc' = "check"
    /\ UNCHANGED <<bank, downloader, direct, pool, ogg_files, vi, model, wavs, out_f>>

\* line 251: AudioSegment.from_wav raises
LoadRaises ==
    /\ vpc = "load"
    /\ vpc' = "except"
    /\ UNCHANGED <<bank, downloader, direct, pool, ogg_files, vi, model, wavs, dur_ms, out_f,
                   notas>>

\* lines 254-256
TooShort ==
    /\ vpc = "check"
    /\ dur_ms < MIN_AUDIO_MS
    /\ out_f' = Append(out_f, <<"[Archivo demasiado corto o vacío]">>)
    /\ notas' = Append(notas, <<"Archivo muy corto: ", Ogg>>)
    /\ vpc' = "unlink"
    /\ UNCHANGED <<bank, downloader, direct, pool, ogg_files, vi, model, wavs, dur_ms>>

\* lines 258-260
ModelMissing ==
    /\ vpc = "check"
    /\ ~(dur_ms < MIN_AUDIO_MS)
    /\ ~model
    /\ out_f' = Append(out_f, <<"[Error: modelo Vosk no cargado]">>)
    /\ notas' = Append(notas, <<"No se pudo transcribir (modelo ausente): ", Ogg>>)
    /\ vpc' = "unlink"
    /\ UNCHANGED <<bank, downloader, direct, pool, ogg_files, vi, model, wavs, dur_ms>>

\* lines 262-268: transcribir_con_vosk returns a text
Transcribe ==
    /\ vpc = "check"
    /\ ~(dur_ms < MIN_AUDIO_MS)
    /\ model
    /\ \E texto \in Texts :
        IF texto # ""
        THEN /\ out_f' = Append(out_f, <<texto>>)
             /\ notas' = Append(notas, <<"Transcripción exitosa: ", Ogg>>)
        ELSE /\ out_f' = Append(out_f, <<"[Sin voz o inaudible]">>)
             /\ notas' = Append(notas, <<"No se detectó voz / transcripción vacía: ", Ogg>>)
    /\ vpc' = "unlink"
    /\ UNCHANGED <<bank, downloader, direct, pool, ogg_files, vi, model, wavs, dur_ms>>

\* line 262: transcribir_con_vosk raises
TranscribeRaises ==
    /\ vpc = "check"
    /\ ~(dur_ms < MIN_AUDIO_MS)
    /\ model
    /\ vpc' = "except"
    /\ UNCHANGED <<bank, downloader, direct, pool, ogg_files, vi, model, wavs, dur_ms, out_f,
                   notas>>

\* lines 271-273: the WAV is deleted
Unlink ==
    /\ vpc = "unlink"
    /\ wavs' = wavs \ {Ogg}
    /\ vpc' = "for"
    /\ UNCHANGED <<bank, downloader, direct, pool, ogg_files, vi, model, dur_ms, out_f, notas>>

\* lines 272-275: wav_path.unlink raises; the file stays
UnlinkRaises ==
    /\ vpc = "unlink"
    /\ Ogg \in wavs
    /\ notas' = Append(notas, <<"No se pudo borrar WAV ", Ogg>>)
    /\ vpc' = "for"
    /\ UNCHANGED <<bank, downloader, direct, pool, ogg_files, vi, model, wavs, dur_ms, out_f>>

\* lines 277-280: the except clause of the file
Except ==
    /\ vpc = "except"
    /\ notas' = Append(notas, <<"Error procesando ", Ogg>>)
    /\ out_f' = Append(out_f, <<"[Error procesando este archivo]">>)
    /\ vpc' = "for"
    /\ UNCHANGED <<bank, downloader, direct, pool, ogg_files, vi, model, wavs, dur_ms>>

\* lines 238, 283: the for is over
Notes ==
    /\ vpc = "for"
    /\ vi = Len(ogg_files)
    /\ vpc' = "notes"
    /\ UNCHANGED <<bank, downloader, direct, pool, ogg_files, vi, model, wavs, dur_ms, out_f,
                   notas>>

NextVosk ==
    \/ NextFile
    \/ ConvertOk
    \/ ConvertRaises
    \/ LoadOk
    \/ LoadRaises
    \/ TooShort
    \/ ModelMissing
    \/ Transcribe
    \/ TranscribeRaises
    \/ Unlink
    \/ UnlinkRaises
    \/ Except
    \/ Notes

SpecVosk == InitVosk /\ [][NextVosk]_vars

-----------------------------------------------------------------------------
(* Properties of the classification.                                        *)

Done == pc = "done"

Records == DOMAIN text

IsLiteralRule(r) == r \in 1..NumRules /\ ~has_group(r) /\ Label(r) \notin RAW_LABEL_SET
IsRawRule(r)     == r \in 1..NumRules /\ ~has_group(r) /\ Label(r) \in RAW_LABEL_SET
IsGroupRule(r)   == r \in 1..NumRules /\ has_group(r)

\* the column in which the pass of rule r looked for its pattern (a group
\* rule whose pass was never made would have looked in the raw text)
ColumnOf(r) ==
    IF IsGroupRule(r) THEN (IF used[r] = "norm" THEN norm ELSE raw)
    ELSE IF IsRawRule(r) THEN raw
    ELSE norm

\* rule r matches the text of record i
Matches(r, i) == StrContains(r, ColumnOf(r)[i])

\* the label rule r produces for record i
Produced(r, i) ==
    IF IsGroupRule(r) THEN build_label(Label(r), StrExtract(r, ColumnOf(r)[i]))
    ELSE IF IsRawRule(r) THEN Strip(Fixed(r, raw[i]))
    ELSE Label(r)

\* the label of the description d classified alone, as a batch of one record
AloneTable == [d \in Descriptions |-> Classify(<<d>>)[1]]

AloneLabel(d) == IF d \in DOMAIN AloneTable THEN AloneTable[d] ELSE Classify(<<d>>)[1]

\* C1: when apply_rules_vectorized has returned, every record has one label,
\* which is not None: the sentinel UNKNOWN when no rule assigned it, and
\* otherwise what the rule that assigned it produces from the record's own
\* text: its literal template, the template built with the captured
\* fragment, or the raw text passed through.
C1_OneLabelPerRecord ==
    Done =>
        /\ DOMAIN label = Records
        /\ \A i \in Records :
            /\ label[i] # None
            /\ \/ method[i] = 0 /\ label[i] = UNKNOWN
               \/ IsLiteralRule(method[i]) /\ label[i] = Label(method[i])
               \/ /\ IsGroupRule(method[i])
                  /\ \E col \in {raw, norm} :
                        /\ StrExtract(method[i], col[i]) # None
                        /\ label[i] = build_label(Label(method[i]),
                                                  StrExtract(method[i], col[i]))
               \/ /\ IsRawRule(method[i])
                  /\ label[i] = Strip(Fixed(method[i], raw[i]))

\* a finished batch of two records, one unresolved and one labelled from a
\* captured fragment
C1_Witness ==
    /\ Done
    /\ \E i, j \in Records :
        /\ method[i] = 0 /\ label[i] = UNKNOWN
        /\ IsGroupRule(method[j]) /\ label[j] # Label(method[j])

\* C2: when apply_rules_vectorized has returned, no label is the empty
\* string.
C2_NoEmptyLabel == Done => \A i \in Records : label[i] # <<>>

Assigned == {i \in Records : label[i] = None /\ label'[i] # None}

\* C4: in the pass of a group-bearing rule, when a raw text of an unset
\* record yields a capture, the records assigned are exactly the unset ones
\* whose raw text yields a capture, labelled from that capture; the records
\* whose normalized text yields a capture are assigned, from that capture,
\* only when no raw text of an unset record yields one.
C4_FallbackPerRule ==
    [][(pc = "rules" /\ rule <= NumRules /\ has_group(rule) /\ rule' = rule + 1) =>
        LET unset   == Unassigned(label)
            rawHit  == {i \in unset : StrExtract(rule, raw[i]) # None}
            normHit == {i \in unset : StrExtract(rule, norm[i]) # None}
        IN  /\ rawHit # {} =>
                /\ Assigned = rawHit
                /\ \A i \in rawHit :
                    label'[i] = build_label(Label(rule), StrExtract(rule, raw[i]))
            /\ rawHit = {} =>
                /\ Assigned = normHit
                /\ \A i \in normHit :
                    label'[i] = build_label(Label(rule), StrExtract(rule, norm[i]))
            /\ (used'[rule] = "norm") <=> (rawHit = {})
      ]_vars

\* after the pass of a group-bearing rule that assigned a record from its raw
\* text, another record is still unset although its normalized text yields a
\* capture
C4_Witness ==
    /\ pc = "rules"
    /\ \E r \in 1..NumRules :
        /\ r < rule /\ has_group(r) /\ used[r] = "raw"
        /\ \E i, j \in Records :
            /\ method[j] = r
            /\ label[i] = None
            /\ StrExtract(r, raw[i]) = None
            /\ StrExtract(r, norm[i]) # None

\* C5, as claimed: the label of a record in a batch is the label the record
\* gets when it is classified alone.
C5_BatchIndependent ==
    Done => \A i \in Records : label[i] = AloneLabel(text[i])

\* some group-bearing rule finds its pattern in the normalized text of the
\* description d and not in its raw text
NormOnly(d) ==
    \E r \in 1..NumRules :
        /\ has_group(r)
        /\ StrExtract(r, RawColumn(<<d>>)[1]) = None
        /\ StrExtract(r, NormColumn(<<d>>)[1]) # None

\* C5, amended: the label of a record in a batch is the label the record gets
\* when it is classified alone, for every record that no group-bearing rule
\* matches through its normalized text only.
C5_BatchIndependentUnlessNormOnly ==
    Done => \A i \in Records : ~NormOnly(text[i]) => label[i] = AloneLabel(text[i])

\* a finished batch of two different records that group-bearing rules match
\* in their raw text, each labelled as it is alone
C5_Witness ==
    /\ Done
    /\ \E i, j \in Records :
        /\ text[i] # text[j]
        /\ ~NormOnly(text[i]) /\ ~NormOnly(text[j])
        /\ IsGroupRule(method[i]) /\ IsGroupRule(method[j])
        /\ label[i] = AloneLabel(text[i])

\* C6: a second call of apply_rules_vectorized on the table it returned
\* gives every record the label the first call gave it.
C6_Idempotent ==
    (Done /\ run > 1) => label = prev

\* a second call has returned, on records that rules of the three kinds and
\* no rule resolved
C6_Witness ==
    /\ Done /\ run > 1
    /\ \E i, j \in Records : method[i] # 0 /\ ~IsLiteralRule(method[i]) /\ method[j] = 0

\* C7: a record ends with UNKNOWN if and only if no rule assigned its label:
\* the records no rule assigned end with UNKNOWN, as "algo sin ningun patron
\* reconocible" does, and no rule gives UNKNOWN to a record it assigns.
C7_UnknownIffUnresolved ==
    Done =>
        \A i \in Records :
            /\ (label[i] = UNKNOWN) <=> (method[i] = 0)
            /\ text[i] = ScenarioC => label[i] = UNKNOWN

\* C8: within a call, a label that is set is never changed or cleared by a
\* later pass: a pass assigns only records whose label is None.
C8_AssignedOnce ==
    [][(pc = "rules" \/ pc = "fillna") =>
        \A i \in Records : (label[i] # None => label'[i] = label[i])
      ]_vars

\* a pass is about to be made of a rule that matches a record already
\* labelled
C8_Witness ==
    /\ pc = "rules" /\ rule <= NumRules
    /\ Unassigned(label) # {}
    /\ \E i \in Records :
        /\ label[i] # None
        /\ StrContains(rule, raw[i]) /\ StrContains(rule, norm[i])

SpeiEnviadoJuanPerez ==
    <<"S", "P", "E", "I", " ", "E", "n", "v", "i", "a", "d", "o", ":", " ",
      "J", "u", "a", "n", " ", "P", "e", "r", "e", "z">>

\* C9: scenario A.  "SPEI Enviado: | Beneficiario: Juan Perez (dato no
\* verificado)" is labelled "SPEI Enviado: Juan Perez", by rule 5 (SPEI
\* Enviado con Beneficiario), from the capture in its raw text.
C9_ScenarioA ==
    Done =>
        \A i \in Records :
            text[i] = ScenarioA =>
                /\ label[i] = SpeiEnviadoJuanPerez
                /\ raw_rules[method[i]].debug = "SPEI Enviado con Beneficiario"
                /\ used[method[i]] = "raw"
                /\ StrExtract(method[i], raw[i]) = <<"J", "u", "a", "n", " ", "P", "e", "r", "e", "z">>

C9_Witness ==
    /\ Done
    /\ \E i, j \in Records : text[i] = ScenarioA /\ text[j] # ScenarioA

DepositoEnEfectivo ==
    <<"D", "e", "p", "ó", "s", "i", "t", "o", " ", "e", "n", " ",
      "E", "f", "e", "c", "t", "i", "v", "o">>

Comision == <<"C", "o", "m", "i", "s", "i", "ó", "n">>

\* C10: a record that a literal-label rule resolves has the rule's pattern in
\* its normalized text, and a record whose normalized text has the pattern
\* of a literal-label rule is resolved by that rule or by an earlier one,
\* whatever its raw text; two records with the same normalized text that
\* literal-label rules resolve get the same label; "DEPÓSITO EN EFECTIVO"
\* and "deposito en efectivo" get "Depósito en Efectivo" and "Comision por
\* administracion" gets "Comisión".
C10_LiteralOnNormalized ==
    Done =>
        /\ \A i \in Records :
            /\ IsLiteralRule(method[i]) => StrContains(method[i], norm[i])
            /\ \A r \in 1..NumRules :
                (IsLiteralRule(r) /\ StrContains(r, norm[i]))
                => method[i] \in 1..r
            /\ text[i] \in {ScenarioE, ScenarioELower} => label[i] = DepositoEnEfectivo
            /\ text[i] = ScenarioB => label[i] = Comision
        /\ \A i, j \in Records :
            (norm[i] = norm[j] /\ IsLiteralRule(method[i]) /\ IsLiteralRule(method[j]))
            => label[i] = label[j]

\* the accented upper-case and the plain lower-case description finished in
\* one batch, and a batch with a record whose raw text lacks the pattern of
\* the literal-label rule that resolved it
C10_Witness ==
    /\ Done
    /\ \/ \E i, j \in Records :
            /\ text[i] = ScenarioE /\ text[j] = ScenarioELower
            /\ norm[i] = norm[j] /\ raw[i] # raw[j]
       \/ \E i \in Records :
            IsLiteralRule(method[i]) /\ ~StrContains(method[i], raw[i])


\* "Cargo a cuenta por deposito con cheque ", in lower case
Boilerplate ==
    <<"c", "a", "r", "g", "o", " ", "a", " ", "c", "u", "e", "n", "t", "a", " ",
      "p", "o", "r", " ", "d", "e", "p", "o", "s", "i", "t", "o", " ",
      "c", "o", "n", " ", "c", "h", "e", "q", "u", "e", " ">>

\* the positions of t at which a boilerplate segment begins: the boilerplate
\* in any case, followed on the same line by a pipe
SegmentStarts(t) ==
    {i \in 1..Len(t) :
        /\ i + Len(Boilerplate) - 1 <= Len(t)
        /\ LowerStr(SubSeq(t, i, i + Len(Boilerplate) - 1)) = Boilerplate
        /\ \E j \in (i + Len(Boilerplate))..Len(t) :
            /\ t[j] = "|"
            /\ \A n \in (i + Len(Boilerplate))..j : t[n] # "\n"}

\* the first pipe after the boilerplate that begins at position i of t
SegmentEnd(t, i) == Least({j \in (i + Len(Boilerplate))..Len(t) : t[j] = "|"})

\* the text t without its first boilerplate segment
WithoutSegment(t) ==
    SubSeq(t, 1, Least(SegmentStarts(t)) - 1)
        \o SubSeq(t, SegmentEnd(t, Least(SegmentStarts(t))) + 1, Len(t))

PorResto ==
    <<"P", "o", "r", " ", "(", "1", ",", "2", "0", "0", ".", "0", "0", ")", " ",
      "m", "x", "n", " ", " ", "r", "e", "s", "t", "o", " ", "d", "e", "l", " ",
      "t", "e", "x", "t", "o">>

\* C11: scenario D.  A record resolved by the rule "__RAW__por_mxn_cargo" is
\* labelled with its raw text, trimmed, from which the boilerplate segment
\* "Cargo a cuenta por deposito con cheque ... |" (in any case, up to the
\* first pipe that follows) is removed and whose other characters are kept
\* as they are; a raw text without such a segment is kept whole; "Por
\* (1,200.00) mxn Cargo a cuenta por deposito con cheque 123 | resto del
\* texto" is resolved by that rule and labelled "Por (1,200.00) mxn  resto
\* del texto".
C11_ScenarioD ==
    Done =>
        \A i \in Records :
            /\ (method[i] # 0 /\ raw_rules[method[i]].debug = "por (xx) mxn Cargo") =>
                /\ Cardinality(SegmentStarts(raw[i])) = 1 =>
                        label[i] = Strip(WithoutSegment(raw[i]))
                /\ SegmentStarts(raw[i]) = {} => label[i] = Strip(raw[i])
            /\ text[i] = ScenarioD =>
                /\ raw_rules[method[i]].debug = "por (xx) mxn Cargo"
                /\ label[i] = PorResto

\* a finished batch with scenario D and a record whose boilerplate segment is
\* in upper case and is followed by two pipes
C11_Witness ==
    /\ Done
    /\ \E i, j \in Records :
        /\ text[i] = ScenarioD /\ label[i] = PorResto
        /\ text[j] = CargoUpper /\ method[j] = method[i]
        /\ Contains(label[j], <<"|">>)

\* the working columns of the current call are built
Entered == pc \in {"rules", "fillna", "done"}

\* C13, as claimed: a description that is not a text (and not missing) is
\* replaced by the empty string: its raw and normalized texts are empty and
\* its label is the label of an empty description.
C13_NonTextAsEmpty ==
    Done =>
        \A i \in Records :
            (text[i] # None /\ ~IsText(text[i])) =>
                /\ raw[i] = <<>>
                /\ norm[i] = <<>>
                /\ label[i] = AloneLabel(Empty)

\* C14: a missing description is treated as the empty string: its raw and
\* its normalized text are empty, no rule finds its pattern in the empty
\* text, and the record ends with UNKNOWN, the label of a record whose
\* description is "".
C14_NoneIsEmpty ==
    /\ Entered =>
        \A i \in Records : text[i] = None => (raw[i] = <<>> /\ norm[i] = <<>>)
    /\ Done =>
        \A i \in Records :
            text[i] = None =>
                /\ \A r \in 1..NumRules : ~StrContains(r, raw[i]) /\ ~StrContains(r, norm[i])
                /\ method[i] = 0
                /\ label[i] = UNKNOWN
                /\ \A j \in Records : text[j] = Empty => label[j] = label[i]

\* a finished batch of a record without description and a record whose
\* description is ""
C14_Witness ==
    /\ Done
    /\ \E i, j \in Records :
        text[i] = None /\ text[j] = Empty /\ label[i] = UNKNOWN /\ label[j] = UNKNOWN

\* C15, as claimed: a normalized text is a text (never None), the same for
\* the same description, and has no colon, no combining mark, no upper-case
\* letter, no whitespace at either end and no two whitespace characters in
\* a row.
C15_Normalized ==
    Entered =>
        \A i \in Records :
            /\ norm[i] # None
            /\ \A j \in Records : text[j] = text[i] => norm[j] = norm[i]
            /\ \A n \in 1..Len(norm[i]) :
                /\ norm[i][n] # ":"
                /\ ~IsMark(norm[i][n])
                /\ Lower(norm[i][n]) = norm[i][n]
                /\ (n = 1 \/ n = Len(norm[i])) => ~IsSpace(norm[i][n])
                /\ n > 1 => ~(IsSpace(norm[i][n - 1]) /\ IsSpace(norm[i][n]))

\* lbl begins with the template name p, whatever the case
Denotes(lbl, p) == StartsWith(LowerStr(lbl), LowerStr(p))

\* the label the claim gives the template lbl and the cleaned fragment frag
Enriched(lbl, frag) ==
    IF Contains(lbl, Placeholder)
    THEN SubSeq(lbl, 1, Find(lbl, Placeholder) - 1) \o frag
            \o SubSeq(lbl, Find(lbl, Placeholder) + Len(Placeholder), Len(lbl))
    ELSE IF \/ Denotes(lbl, <<"S", "P", "E", "I", " ", "E", "n", "v", "i", "a", "d", "o">>)
            \/ Denotes(lbl, <<"S", "P", "E", "I", " ", "R", "e", "c", "i", "b", "i", "d", "o">>)
            \/ Denotes(lbl, <<"D", "e", "v", "o", "l", "u", "c", "i", "ó", "n", " ", "d", "e", " ", "S", "P", "E", "I">>)
         THEN lbl \o <<":", " ">> \o frag
    ELSE IF Denotes(lbl, <<"R", "e", "t", "i", "r", "o", " ", "d", "e", " ", "R", "e", "c", "u", "r", "s", "o", "s">>)
         THEN lbl \o <<" ", "B", "e", "n", "e", "f", "i", "c", "i", "a", "r", "i", "o", " ">> \o frag
    ELSE lbl \o <<" ">> \o frag

\* the capture of rule r in the text of record i that its pass read
Capture(r, i) == StrExtract(r, ColumnOf(r)[i])

\* C18: the label of a record that a group-bearing rule resolved is built
\* from the rule's template and the cleaned fragment: the fragment in the
\* place of "****"; template, ": " and fragment for SPEI Enviado, SPEI
\* Recibido and Devolución de SPEI; template, " Beneficiario " and fragment
\* for Retiro de Recursos; template, " " and fragment for Entrega de
\* Recursos and any other template.  "CHEQUE ****" with 1234 gives
\* "CHEQUE 1234".
C18_TemplateBranches ==
    /\ build_label(<<"C", "H", "E", "Q", "U", "E", " ", "*", "*", "*", "*">>, <<"1", "2", "3", "4">>)
            = <<"C", "H", "E", "Q", "U", "E", " ", "1", "2", "3", "4">>
    /\ build_label(<<"O", "t", "r", "o">>, <<" ", "a", " ", "|", " ", "b", " ">>)
            = <<"O", "t", "r", "o", " ", "a", " ", "b">>
    /\ Done =>
        \A i \in Records :
            IsGroupRule(method[i]) =>
                label[i] = Enriched(Label(method[i]), CleanFragment(Capture(method[i], i)))

\* a finished batch of a withdrawal and a delivery of funds, each resolved by
\* its group-bearing rule
C18_Witness ==
    /\ Done
    /\ \E i, j \in Records :
        /\ text[i] = Retiro /\ IsGroupRule(method[i])
        /\ text[j] = Entrega /\ IsGroupRule(method[j])
        /\ method[i] # method[j]

\* the record i was unset when the pass of rule r began
UnsetAt(r, i) == method[i] = 0 \/ method[i] >= r

\* C19, as claimed: a record that a group-bearing rule resolved has a
\* capture that is not empty and a cleaned fragment that is not empty, and
\* the pass of a group-bearing rule in which no unset record has a raw-text
\* capture that is not empty reads the normalized text.
C19_NonEmptyCapture ==
    Done =>
        /\ \A i \in Records :
            IsGroupRule(method[i]) =>
                /\ Capture(method[i], i) \notin {None, <<>>}
                /\ CleanFragment(Capture(method[i], i)) # <<>>
        /\ \A r \in 1..NumRules :
            (/\ IsGroupRule(r) /\ used[r] # "none"
             /\ \A i \in Records :
                    UnsetAt(r, i) => StrExtract(r, raw[i]) \in {None, <<>>})
            => used[r] = "norm"

\* the pattern of rule r occurs in a working text of record i
TextMatches(r, i) == StrContains(r, raw[i]) \/ StrContains(r, norm[i])

\* C20, as claimed: a record that was unset at the pass of a group-bearing
\* rule, whose text has the rule's pattern and for which the pass extracted
\* a null group, is labelled with the rule's template as it is, by that
\* rule.
C20_NullGroupVerbatim ==
    Done =>
        \A r \in 1..NumRules : \A i \in Records :
            (/\ IsGroupRule(r) /\ used[r] # "none"
             /\ UnsetAt(r, i) /\ TextMatches(r, i)
             /\ Capture(r, i) = None)
            => (method[i] = r /\ label[i] = Label(r))

\* C20, amended: a record for which the pass of a group-bearing rule
\* extracted a null group is not assigned by that rule, even when the rule's
\* pattern occurs in its other working text; a record that a group-bearing
\* rule assigned has a capture, and its label is never the template as it
\* is.
C20_NullGroupUnset ==
    Done =>
        /\ \A r \in 1..NumRules : \A i \in Records :
            (/\ IsGroupRule(r) /\ used[r] # "none"
             /\ UnsetAt(r, i)
             /\ Capture(r, i) = None)
            => method[i] # r
        /\ \A i \in Records :
            IsGroupRule(method[i]) =>
                /\ Capture(method[i], i) # None
                /\ label[i] # Label(method[i])

\* a finished record that was unset at the pass of a group-bearing rule whose
\* pattern occurs in its normalized text, for which the pass, made on the raw
\* text, extracted nothing, and which a later rule resolved
C20_Witness ==
    /\ Done
    /\ \E r \in 1..NumRules : \E i \in Records :
        /\ IsGroupRule(r) /\ used[r] = "raw"
        /\ StrContains(r, norm[i])
        /\ Capture(r, i) = None
        /\ method[i] > r

\* the table main read has no description column
Missing == entry = "main" /\ ~Has(given.cols, DESCRIPTION_COL)

\* no record has been classified and no working column has been added
Untouched ==
    /\ columns = given.cols
    /\ label = Column(given, "label")
    /\ norm = Column(given, norm_col)
    /\ raw = Column(given, raw_col)
    /\ \A i \in DOMAIN method : method[i] = 0
    /\ \A r \in 1..NumRules : used[r] = "none"

\* C12: when the table main read lacks the description column, main ends
\* with an error whose message names that column, no record is classified,
\* no working column is added and nothing is written; main raises this
\* error in no other case.
C12_MissingColumn ==
    /\ (Missing /\ pc # "main") =>
            /\ pc = "raised"
            /\ \E k \in DOMAIN error : error[k] = DESCRIPTION_COL
            /\ ~Has(given.cols, error[2])
            /\ Untouched
            /\ written = NoTable
    /\ (error # NoError \/ pc = "raised") => Missing

\* main has raised the error for a table that has other columns
C12_Witness ==
    /\ pc = "raised"
    /\ Missing
    /\ Has(given.cols, "label")
    /\ error = Message(DESCRIPTION_COL)

\* C16, as claimed: the table main writes has the columns of the table it
\* read, in their order and with their cells, followed by the one column
\* label with a label for every row, and has neither working column.
C16_InputPlusLabel ==
    pc = "written" =>
        /\ written.cols = given.cols \o <<"label">>
        /\ \A k \in DOMAIN given.cols : written.data[k] = given.data[k]
        /\ DOMAIN written.data[Len(written.cols)] = DOMAIN text
        /\ \A i \in DOMAIN text : written.data[Len(written.cols)][i] = label[i]
        /\ ~Has(written.cols, norm_col)
        /\ ~Has(written.cols, raw_col)

\* the place of a download helper in the documented order of strategies:
\* 1 yt-dlp, 2 HTML parsing and direct links, 3 HLS/DASH with ffmpeg,
\* 4 capture of the traffic with selenium-wire
Strategy(call) ==
    IF call \in {"download_with_ytdlp", "subprocess.run yt-dlp"} THEN 1
    ELSE IF call \in {"find_media_urls_from_html", "download_direct_file"} THEN 2
    ELSE IF call = "download_hls_with_ffmpeg" THEN 3
    ELSE 4

\* the strategy is not switched off by the options
Offered(s) ==
    IF s = 1 THEN ~opts.no_yt
    ELSE IF s = 4 THEN opts.use_selenium
    ELSE TRUE

\* C17, as claimed: when worker starts a strategy, every earlier strategy of
\* the documented order that the options leave on has been tried and none of
\* the helpers called before has downloaded the video; and when a helper has
\* downloaded the video worker returns success.
C17_DocumentedOrder ==
    /\ \A k \in DOMAIN log :
        /\ \A s \in 1..(Strategy(log[k].call) - 1) :
            Offered(s) => \E j \in 1..(k - 1) : Strategy(log[j].call) = s
        /\ \A j \in 1..(k - 1) : ~log[j].downloaded
    /\ wpc = "returned" =>
        ((\E k \in DOMAIN log : log[k].downloaded) => result.ok)

\* a character that separates the words of a captured group
IsSep(c) == IsSpace(c) \/ c = "|"

\* the characters of t that are no separators, in order
Inked(t) == SelectSeq(t, LAMBDA c : ~IsSep(c))

\* the positions of t at which a word begins
WordStarts(t) == {k \in 1..Len(t) : ~IsSep(t[k]) /\ (k = 1 \/ IsSep(t[k - 1]))}

\* C21: the fragment embedded in the label of a record that a group-bearing
\* rule resolved is the captured group cleaned: it has the words of the
\* capture, one space between two words, no pipe, no run of two or more
\* whitespace characters and no whitespace at its ends.
C21_CleanedFragment ==
    Done =>
        \A i \in Records :
            IsGroupRule(method[i]) =>
                LET g == Capture(method[i], i)
                    f == CleanFragment(g)
                IN  /\ label[i] = Enriched(Label(method[i]), f)
                    /\ \A k \in 1..Len(f) : f[k] # "|" /\ (IsSpace(f[k]) => f[k] = " ")
                    /\ \A k \in 1..(Len(f) - 1) : ~(IsSpace(f[k]) /\ IsSpace(f[k + 1]))
                    /\ f = <<>> \/ (~IsSpace(f[1]) /\ ~IsSpace(f[Len(f)]))
                    /\ Inked(f) = Inked(g)
                    /\ WordStarts(f) # {} =>
                        Cardinality({k \in 1..Len(f) : f[k] = " "}) = Cardinality(WordStarts(g)) - 1
                    /\ Cardinality(WordStarts(f)) = Cardinality(WordStarts(g))

\* a finished record whose capture holds a pipe and a run of two spaces
C21_Witness ==
    /\ Done
    /\ \E i \in Records :
        /\ text[i] = Recibido
        /\ IsGroupRule(method[i])
        /\ \E k \in 1..Len(Capture(method[i], i)) : Capture(method[i], i)[k] = "|"
        /\ \E k \in 1..(Len(Capture(method[i], i)) - 1) :
            Capture(method[i], i)[k] = " " /\ Capture(method[i], i)[k + 1] = " "
        /\ label[i] = <<"S", "P", "E", "I", " ", "R", "e", "c", "i", "b", "i", "d", "o", ":", " ",
                        "A", "C", "M", "E", " ", "S", "A", " ", "x">>

\* the two templates that ask for the raw text
PorStar == <<"p", "o", "r", " ", "*">>

RawCargo ==
    <<"_", "_", "R", "A", "W", "_", "_", "p", "o", "r", "_", "m", "x", "n", "_", "c", "a", "r", "g", "o">>

\* rule r has no capture group and one of the two templates
IsPassthrough(r) == r \in 1..NumRules /\ ~has_group(r) /\ Label(r) \in {PorStar, RawCargo}

\* "  Pago:  POR (5.00) MXN | Recibo # 12 DEPÓSITO  ", trimmed
PorVerbatimTrimmed == SubSeq(PorVerbatim, 3, Len(PorVerbatim) - 2)

\* C22: the pass of a raw-passthrough rule without a capture group reads the
\* raw text: it assigns the unset records in whose raw text its pattern
\* occurs, at any place, and no other record, whatever their normalized
\* text; the label the "por *" rule gives is the raw text, trimmed and
\* otherwise as it is.
C22_RawPassthrough ==
    Done =>
        \A r \in 1..NumRules :
            (IsPassthrough(r) /\ used[r] # "none") =>
                /\ used[r] = "raw"
                /\ \A i \in Records :
                    UnsetAt(r, i) => (method[i] = r <=> StrContains(r, raw[i]))
                /\ \A i \in Records :
                    (method[i] = r /\ Label(r) = PorStar) =>
                        /\ label[i] = Strip(raw[i])
                        /\ IsText(text[i]) => label[i] = Strip(text[i])
                        /\ text[i] = PorVerbatim => label[i] = PorVerbatimTrimmed

\* a finished batch in which the "por *" rule resolved a record with capital
\* letters, an accent, a colon and double spaces, and left unset a record in
\* whose normalized text alone its pattern occurs
C22_Witness ==
    /\ Done
    /\ \E r \in 1..NumRules : \E i, j \in Records :
        /\ IsPassthrough(r) /\ Label(r) = PorStar
        /\ text[i] = PorVerbatim /\ method[i] = r
        /\ label[i] # LowerStr(label[i])
        /\ label[i] # normalize_text(text[i])
        /\ text[j] = PorColon
        /\ StrContains(r, norm[j]) /\ ~StrContains(r, raw[j])
        /\ method[j] = 0

\* the debug tags of the context-rich rules
EnrichedTags ==
    {"SPEI Enviado con Beneficiario", "SPEI Recibido con Ordenante",
     "Devolución de SPEI con Ordenante", "Retiro de Recursos con Beneficiario",
     "Entrega de Recursos con Ordenante"}

IsEnriched(r) == r \in 1..NumRules /\ raw_rules[r].debug \in EnrichedTags

\* a context-rich rule and the generic rule of the same template
Counterparts ==
    {p \in (1..NumRules) \X (1..NumRules) :
        IsEnriched(p[1]) /\ ~IsEnriched(p[2]) /\ Label(p[1]) = Label(p[2])}

\* C23: each of the five context-rich rules has a capture group and stands
\* before the generic rule of its template; a record whose text has the
\* pattern of both is never resolved by the generic rule, and unless a rule
\* before the context-rich one resolved it, the context-rich rule resolved
\* it and its label is the template enriched with the capture.
C23_EnrichedBeforeGeneric ==
    /\ Cardinality(Counterparts) = 5
    /\ \A p \in Counterparts : p[1] < p[2] /\ has_group(p[1])
    /\ Done =>
        \A p \in Counterparts : \A i \in Records :
            (TextMatches(p[1], i) /\ TextMatches(p[2], i)) =>
                /\ method[i] # p[2]
                /\ method[i] \notin 1..(p[1] - 1) =>
                    /\ method[i] = p[1]
                    /\ label[i] = Enriched(Label(p[1]), CleanFragment(Capture(p[1], i)))
                    /\ label[i] # Label(p[2])

\* a finished batch of a SPEI sent with its beneficiary and a withdrawal with
\* its beneficiary, each with the pattern of its generic rule as well
C23_Witness ==
    /\ Done
    /\ \E p, q \in Counterparts : \E i, j \in Records :
        /\ p # q
        /\ text[i] = ScenarioA /\ text[j] = Retiro
        /\ TextMatches(p[1], i) /\ TextMatches(p[2], i) /\ method[i] = p[1]
        /\ TextMatches(q[1], j) /\ TextMatches(q[2], j) /\ method[j] = q[1]
        /\ label[i] = SpeiEnviadoJuanPerez

\* the label column after the passes of rules r, r + 1, ... up to the last
\* rule of the table, none left out
RECURSIVE EvaluateAll(_, _, _, _)
EvaluateAll(r, lab, rawc, normc) ==
    IF r > NumRules THEN lab
    ELSE EvaluateAll(r + 1, PassColumn(r, lab, rawc, normc), rawc, normc)

\* no record of the batch is unset
NoneUnset == \A i \in Records : label[i] # None

\* C24: once no record of the batch is unset, the next step leaves the loop
\* with no further rule evaluated, and the labels returned are the labels
\* that the passes of all the rules of the table give.
C24_ShortCircuit ==
    /\ [][(pc = "rules" /\ rule <= NumRules /\ NoneUnset) =>
            (pc' = "fillna" /\ rule' = rule /\ used' = used
             /\ label' = label /\ method' = method)]_vars
    /\ [](Done =>
            label = FillNa(EvaluateAll(1, [i \in Records |-> None], raw, norm)))

\* the loop was left before the end of the table, with a record in whose
\* text the pattern of a rule not evaluated occurs
C24_Witness ==
    /\ Done
    /\ rule <= NumRules
    /\ \E i \in Records : \E r \in rule..NumRules :
        /\ TextMatches(r, i)
        /\ used[r] = "none"
        /\ Produced(r, i) # label[i]

RAW_MATCH == <<"R", "A", "W", "_", "M", "A", "T", "C", "H">>

\* C25: the pass of a rule without a capture group reads the raw text and
\* gives the raw text as label if and only if its template is "por *" or
\* "__RAW__por_mxn_cargo"; the pass of every other such rule assigns the
\* unset records in whose normalized text its pattern occurs, and no other,
\* and their label is its template; the first rule of the table is such a
\* rule, with the template "RAW_MATCH".
C25_SentinelsOnly ==
    /\ ~has_group(1) /\ Label(1) = RAW_MATCH
    /\ {Label(r) : r \in {k \in 1..NumRules : IsPassthrough(k)}} = {PorStar, RawCargo}
    /\ Done =>
        \A r \in 1..NumRules :
            (~has_group(r) /\ used[r] # "none") =>
                /\ used[r] = "raw" <=> Label(r) \in {PorStar, RawCargo}
                /\ \A i \in Records :
                    UnsetAt(r, i) =>
                        IF Label(r) \in {PorStar, RawCargo}
                        THEN /\ method[i] = r <=> StrContains(r, raw[i])
                             /\ (method[i] = r /\ (Label(r) = PorStar \/ SegmentStarts(raw[i]) = {})) =>
                                    label[i] = Strip(raw[i])
                             /\ (method[i] = r /\ Label(r) = RawCargo
                                 /\ Cardinality(SegmentStarts(raw[i])) = 1) =>
                                    label[i] = Strip(WithoutSegment(raw[i]))
                        ELSE /\ method[i] = r <=> StrContains(r, norm[i])
                             /\ method[i] = r => label[i] = Label(r)

\* a finished record that the first rule resolved from its normalized text,
\* its raw text being without the pattern
C25_Witness ==
    /\ Done
    /\ \E i \in Records :
        /\ text[i] = RefDocto
        /\ method[i] = 1
        /\ label[i] = RAW_MATCH
        /\ ~StrContains(1, raw[i])
        /\ StrContains(1, norm[i])

\* the debug tag of the rule that resolved record i ("" if none did)
Tag(i) == IF method[i] = 0 THEN "" ELSE raw_rules[method[i]].debug

\* C26: the generic rules "SPEI Enviado" and "SPEI Recibido" have a capture
\* group around the keyword, and a record resolved by one of them is
\* labelled template, ": " and the keyword as the text read has it, not the
\* template alone; the generic rules "Devolución de SPEI", "Entrega de
\* Recursos" and "Retiro de Recursos" have no group and give the template.
C26_GenericSpei ==
    /\ \A r \in 1..NumRules :
        /\ raw_rules[r].debug \in {"SPEI Enviado", "SPEI Recibido"} => has_group(r)
        /\ raw_rules[r].debug \in {"Devolución de SPEI", "Entrega de Recursos", "Retiro de Recursos"}
                => ~has_group(r)
    /\ Cardinality({r \in 1..NumRules : raw_rules[r].debug \in
            {"SPEI Enviado", "SPEI Recibido", "Devolución de SPEI",
             "Entrega de Recursos", "Retiro de Recursos"}}) = 5
    /\ Done =>
        \A i \in Records :
            /\ Tag(i) \in {"SPEI Enviado", "SPEI Recibido"} =>
                LET kw == Capture(method[i], i) IN
                /\ label[i] = Label(method[i]) \o <<":", " ">> \o kw
                /\ LowerStr(kw) = LowerStr(Label(method[i]))
                /\ Contains(ColumnOf(method[i])[i], kw)
                /\ label[i] # Label(method[i])
            /\ Tag(i) \in {"Devolución de SPEI", "Entrega de Recursos", "Retiro de Recursos"} =>
                label[i] = Label(method[i])

\* a finished batch in which the generic rule "SPEI Enviado" gave "SPEI
\* Enviado: Spei Enviado" and the generic rule "Retiro de Recursos" its
\* template
C26_Witness ==
    /\ Done
    /\ \E i, j \in Records :
        /\ text[i] = SpeiPlain /\ Tag(i) = "SPEI Enviado"
        /\ label[i] = <<"S", "P", "E", "I", " ", "E", "n", "v", "i", "a", "d", "o", ":", " ",
                        "S", "p", "e", "i", " ", "E", "n", "v", "i", "a", "d", "o">>
        /\ text[j] = RetiroPlain /\ Tag(j) = "Retiro de Recursos"
        /\ label[j] = <<"R", "e", "t", "i", "r", "o", " ", "d", "e", " ",
                        "R", "e", "c", "u", "r", "s", "o", "s">>

\* the first yt-dlp attempt failed with an output that tells of a piracy block
PiracyAtFirst ==
    /\ log # <<>>
    /\ log[1].call = "download_with_ytdlp"
    /\ ~log[1].downloaded
    /\ \/ "[piracy]" \in log[1].said
       \/ "this website is no longer supported" \in log[1].said

\* C27: when the first yt-dlp attempt fails with an output that tells of a
\* piracy block, worker has returned failure with the piracy message and no
\* other download helper has been or is ever called.
C27_PiracyStops ==
    PiracyAtFirst =>
        /\ wpc = "returned"
        /\ ~result.ok
        /\ result.msg = "yt-dlp bloquea este sitio por política (Piracy). No se puede forzar."
        /\ Len(log) = 1

\* worker has returned after a first attempt whose output told of a piracy
\* block and of an unknown algorithm as well
C27_Witness ==
    /\ PiracyAtFirst
    /\ "unknown algorithm" \in log[1].said
    /\ opts.use_selenium
    /\ wpc = "returned"

-----------------------------------------------------------------------------
\* the attempts that failed: every session.get so far but a completed one
FailedAttempts == {k \in DOMAIN sent : sent[k] # "ok"}

\* C28: download_direct_file always ends, after at most max_retries HTTP
\* attempts. It returns success at the first attempt that completes without
\* error, and no attempt follows a completed one; it returns failure only
\* after exactly max_retries attempts that all failed, and its message
\* carries the error of the last of them.
C28_BoundedRetries ==
    /\ [](Len(sent) <= max_retries)
    /\ []((dpc = "returned" /\ dret.ok) =>
            /\ sent # <<>>
            /\ sent[Len(sent)] = "ok"
            /\ FailedAttempts = 1..(Len(sent) - 1))
    /\ []((dpc = "returned" /\ ~dret.ok) =>
            /\ Len(sent) = max_retries
            /\ FailedAttempts = 1..max_retries
            /\ dret.msg[2] = Decimal(max_retries)
            /\ sent # <<>> => dret.msg[4] = sent[Len(sent)])
    /\ [][FailedAttempts # DOMAIN sent => sent' = sent]_vars
    /\ <>(dpc \in {"returned", "raised"})

\* failure returned after several attempts that failed with different
\* errors
C28_Witness ==
    /\ dpc = "returned"
    /\ ~dret.ok
    /\ Len(sent) >= 2
    /\ sent[Len(sent)] # sent[1]
    /\ slept >= 5

-----------------------------------------------------------------------------
\* what main has to record for the future: the tuple worker returned, or a
\* failed result for the url of the future when worker raised
Due(i) ==
    IF futures[i].exception = NoErr
    THEN futures[i].result
    ELSE [url |-> urls[i], ok |-> FALSE,
          msg |-> <<"Excepción: ", futures[i].exception>>]

-----------------------------------------------------------------------------
\* the files of ogg_files the for has dealt with
Handled == {ogg_files[k] : k \in 1..(IF vpc \in {"for", "notes"} THEN vi ELSE vi - 1)}

\* C30: after procesar_carpeta has handled an .ogg file, the temporary WAV
\* it created for that file no longer exists, whatever the outcome for the
\* file: transcribed, too short, model missing, empty transcription, or an
\* exception raised during conversion or transcription.
C30_NoWavLeft ==
    vpc # "idle" => \A f \in Handled : f \notin wavs
=============================================================================
